---- MODULE Spec2Model ----
(***************************************************************************)
(* Model of the multi-object tracking core of the assistive navigation     *)
(* system: ObjectManager (object_manager.py), ModeController               *)
(* (mode_controller.py), SharedGameState (shared_state.py), the async      *)
(* detection slot of VisionController (vision_module.py) and the vision /  *)
(* UI / voice threads of main_enhanced.py.                                 *)
(*                                                                         *)
(* Python lists are heap cells (lists) addressed by references, because    *)
(* the UI loop stores the published snapshot list itself into              *)
(* object_manager.objects; TrackedObjects are heap records (objs) keyed by *)
(* id, shared by every list that holds them.  Times are integer seconds,   *)
(* scores and IoU are exact rationals.                                     *)
(***************************************************************************)
EXTENDS Integers, Sequences, FiniteSets, TLC

VARIABLES
    now,              \* time.time()
    objs,             \* heap of TrackedObject records, by id
    lists,            \* heap of Python list objects: reference -> sequence of ids
    om_objects,       \* ObjectManager.objects (a list reference)
    next_id,          \* ObjectManager.next_id
    current_mode,     \* ModeController.current_mode
    tracked_objects,  \* SharedGameState.tracked_objects (a list reference)
    tracking_status,  \* SharedGameState.tracking_status
    latest_frame,     \* SharedGameState.latest_frame is not None
    command_queue,    \* SharedGameState.command_queue
    is_running,       \* SharedGameState.is_running
    is_searching,     \* VisionController.is_searching
    search_result,    \* VisionController.search_result
    workers,          \* detection worker threads in flight
    v_pc,             \* position of vision_worker in its loop body
    ui_pc,            \* position of the UI loop in its body
    ui_objects,       \* UI loop local `objects` (a list reference or NoRef)
    voice,            \* VoiceController.is_recording, process_voice_thread alive
    last,             \* the last operation: name, arguments, return value
    hist,             \* history: ids destroyed, rescan signals per id
    audio,            \* HRTF_AudioController.sources and the OpenAL sources alive
    mixer,            \* MultiAudioController.sources and the last block written
    tts,              \* VoiceController speech: speak threads, player processes
    callers,          \* threads inside add_command / get_next_command, the lock
    loops,            \* the three loops of main() and the threads they spawned
    hrtf,             \* audio_hrtf: OPENAL_AVAILABLE, and the controller's attributes
    locks             \* who holds _lock, search_lock and sources_lock, and where each thread is

omVars  == <<objs, lists, om_objects, next_id, current_mode>>
ssVars  == <<tracked_objects, tracking_status, latest_frame, command_queue, is_running>>
vcVars  == <<is_searching, search_result, workers>>
thrVars == <<v_pc, ui_pc, ui_objects, voice>>
extVars == <<mixer, tts, callers, loops, hrtf, locks>>
vars    == <<now, omVars, ssVars, vcVars, thrVars, last, hist, audio, extVars>>

----------------------------------------------------------------------------
(* Bounds of the model                                                     *)

MaxId == 2          \* objects ever created (next_id never exceeds it)

(* Program constants                                                        *)

NoTime == 0                 \* lost_time = None / last_template_update = 0.0
FrameW == 640               \* frame.shape[1]
FrameH == 480               \* frame.shape[0]
NormRange == 1000           \* detection boxes are normalised to 0..1000
MinBoxSide == 5             \* boxes under 5 px a side are discarded
LostTimeout == 2            \* check_lost_threats: elapsed > 2.0
MaxAge == 30                \* cleanup_stale_trackers(max_age=30.0)

NoBox == <<>>               \* tracker = None / template = None
NoContext == <<>>           \* context = None

----------------------------------------------------------------------------
(* Arithmetic helpers                                                      *)

Min(a, b) == IF a < b THEN a ELSE b
Max(a, b) == IF a > b THEN a ELSE b
Abs(a) == IF a < 0 THEN 0 - a ELSE a
\* int(a / b) of Python for b > 0: truncation toward zero
TruncDiv(a, b) == IF a >= 0 THEN a \div b ELSE 0 - ((0 - a) \div b)

Range(s) == {s[i] : i \in DOMAIN s}

----------------------------------------------------------------------------
(* Geometry: ObjectManager.compute_iou.  The result is the exact rational  *)
(* <<numerator, denominator>>; 0.0 when the union is empty.                *)

\* the intersection over the sum of the areas
compute_iou_OverSum(box1, box2) ==
    LET xA == Max(box1[1], box2[1])
        yA == Max(box1[2], box2[2])
        xB == Min(box1[1] + box1[3], box2[1] + box2[3])
        yB == Min(box1[2] + box1[4], box2[2] + box2[4])
        interArea == Max(0, xB - xA) * Max(0, yB - yA)
        total == box1[3] * box1[4] + box2[3] * box2[4]
    IN  IF total = 0 THEN <<0, 1>> ELSE <<interArea, total>>

compute_iou(box1, box2) ==
    LET xA == Max(box1[1], box2[1])
        yA == Max(box1[2], box2[2])
        xB == Min(box1[1] + box1[3], box2[1] + box2[3])
        yB == Min(box1[2] + box1[4], box2[2] + box2[4])
        interArea == Max(0, xB - xA) * Max(0, yB - yA)
        box1Area == box1[3] * box1[4]
        box2Area == box2[3] * box2[4]
        union == box1Area + box2Area - interArea
    IN  IF union = 0 THEN <<0, 1>> ELSE <<interArea, union>>

\* iou > n/10 for a rational iou with positive denominator
IoUGreater(iou, tenths) == 10 * iou[1] > tenths * iou[2]

----------------------------------------------------------------------------
(* Labels are character sequences; process_detections splits              *)
(* "Phone [on table]" with re.search(r"^(.*?)\[(.*?)\]") and strips both   *)
(* groups.                                                                 *)

RECURSIVE LStrip(_)
LStrip(s) == IF s # <<>> /\ Head(s) = " " THEN LStrip(Tail(s)) ELSE s

RECURSIVE RStrip(_)
RStrip(s) ==
    IF s # <<>> /\ s[Len(s)] = " " THEN RStrip(SubSeq(s, 1, Len(s) - 1)) ELSE s

Strip(s) == RStrip(LStrip(s))

\* index of the first occurrence of c in s at a position >= from, or 0
FirstIndex(s, c, from) ==
    LET hits == {i \in from..Len(s) : s[i] = c}
    IN  IF hits = {} THEN 0 ELSE CHOOSE i \in hits : \A j \in hits : i <= j

\* the (label, context) pair process_detections derives from a raw label
ParseLabel(raw) ==
    LET open == FirstIndex(raw, "[", 1)
        close == IF open = 0 THEN 0 ELSE FirstIndex(raw, "]", open + 1)
    IN  IF close = 0
        THEN [label |-> raw, context |-> NoContext]
        ELSE [label |-> Strip(SubSeq(raw, 1, open - 1)),
              context |-> Strip(SubSeq(raw, open + 1, close - 1))]

----------------------------------------------------------------------------
(* Conversion of a normalised box [y_min, x_min, y_max, x_max] to the      *)
(* clamped pixel box (x, y, w, h); NoBox when the record is skipped.       *)

\* the conversion without the four clamping lines
PixelBox_Unclamped(box_2d) ==
    IF Len(box_2d) # 4 THEN NoBox
    ELSE
    LET x == TruncDiv(box_2d[2] * FrameW, NormRange)
        y == TruncDiv(box_2d[1] * FrameH, NormRange)
        w == TruncDiv((box_2d[4] - box_2d[2]) * FrameW, NormRange)
        h == TruncDiv((box_2d[3] - box_2d[1]) * FrameH, NormRange)
    IN  IF w < MinBoxSide \/ h < MinBoxSide THEN NoBox ELSE <<x, y, w, h>>

PixelBox(box_2d) ==
    IF Len(box_2d) # 4 THEN NoBox
    ELSE
    LET y_min == box_2d[1]
        x_min == box_2d[2]
        y_max == box_2d[3]
        x_max == box_2d[4]
        x0 == TruncDiv(x_min * FrameW, NormRange)
        y0 == TruncDiv(y_min * FrameH, NormRange)
        w0 == TruncDiv((x_max - x_min) * FrameW, NormRange)
        h0 == TruncDiv((y_max - y_min) * FrameH, NormRange)
        x == Max(0, Min(x0, FrameW - 1))
        y == Max(0, Min(y0, FrameH - 1))
        w == Max(1, Min(w0, FrameW - x))
        h == Max(1, Min(h0, FrameH - y))
    IN  IF w < MinBoxSide \/ h < MinBoxSide THEN NoBox ELSE <<x, y, w, h>>

----------------------------------------------------------------------------
(* TrackedObject and ObjectManager.  An ObjectManager value is the record  *)
(* [objs, list, next_id]: the object heap, the contents of the list that   *)
(* ObjectManager.objects refers to, and the id counter.                    *)

TrackedObject(label, bbox, context, t) ==
    [label |-> label, bbox |-> bbox, tracker |-> NoBox, threat_score |-> 0,
     is_lost |-> FALSE, lost_time |-> NoTime, template |-> NoBox,
     last_template_update |-> NoTime, context |-> context,
     last_verified |-> t]

add_object(om, label, bbox, context, t) ==
    [objs |-> om.objs @@ (om.next_id :> TrackedObject(label, bbox, context, t)),
     list |-> Append(om.list, om.next_id),
     next_id |-> om.next_id + 1]

remove_object(om, obj_id) ==
    [om EXCEPT !.list = SelectSeq(om.list, LAMBDA i : i # obj_id)]

\* clear() that also starts the ids again from 0
clear_ResetIds(om) == [om EXCEPT !.list = <<>>, !.next_id = 0]

clear(om) == [om EXCEPT !.list = <<>>]

----------------------------------------------------------------------------
(* ModeController.process_detections                                       *)

\* variants: the tracked branch as loose as the lost one; the lost branch as
\* strict as the tracked one
ShouldUpdateBbox_AlwaysLoose(is_lost, iou) == IoUGreater(iou, 1)
ShouldUpdateBbox_AlwaysStrict(is_lost, iou) == IoUGreater(iou, 6)

\* lines 184-194: lost objects accept at IoU > 0.1, tracked ones at IoU > 0.6
ShouldUpdateBbox(is_lost, iou) ==
    IF is_lost THEN IoUGreater(iou, 1) ELSE IoUGreater(iou, 6)

\* variants: the metadata refresh at the bbox threshold; >= for >
IsSameObject_Strict(iou) == IoUGreater(iou, 6)
IsSameObject_Inclusive(iou) == 10 * iou[1] >= iou[2]

\* line 201: "if it's likely the same object"
IsSameObject(iou) == IoUGreater(iou, 1)

\* lines 172-207: the scan over the existing objects for one detection
RECURSIVE MatchExisting(_, _, _, _, _, _, _)
MatchExisting(o, list, i, label, new_bbox, context, t) ==
    IF i > Len(list) THEN [objs |-> o, matched |-> FALSE]
    ELSE
    LET id == list[i]
        existing_obj == o[id]
    IN  IF existing_obj.label # label
        THEN MatchExisting(o, list, i + 1, label, new_bbox, context, t)
        ELSE
        LET iou == compute_iou(existing_obj.bbox, new_bbox)
            moved == IF ShouldUpdateBbox(existing_obj.is_lost, iou)
                     THEN [existing_obj EXCEPT !.bbox = new_bbox]
                     ELSE existing_obj
        IN  IF IsSameObject(iou)
            THEN [objs |-> [o EXCEPT ![id] =
                              [moved EXCEPT !.last_verified = t,
                                            !.context = context,
                                            !.is_lost = FALSE,
                                            !.lost_time = NoTime]],
                  matched |-> TRUE]
            ELSE MatchExisting([o EXCEPT ![id] = moved], list, i + 1,
                               label, new_bbox, context, t)

\* lines 135-217: one iteration of the loop over the batch
ProcessDetection(om, det, t) ==
    LET new_bbox == PixelBox(det.box_2d)
        parsed == ParseLabel(det.label)
        scan == MatchExisting(om.objs, om.list, 1, parsed.label, new_bbox,
                              parsed.context, t)
    IN  IF new_bbox = NoBox THEN [om |-> om, count |-> 0]
        ELSE IF scan.matched
        THEN [om |-> [om EXCEPT !.objs = scan.objs], count |-> 0]
        ELSE [om |-> add_object([om EXCEPT !.objs = scan.objs], parsed.label,
                                new_bbox, parsed.context, t),
              count |-> 1]

RECURSIVE process_detections(_, _, _)
process_detections(om, detections, t) ==
    IF detections = <<>> THEN [om |-> om, count |-> 0]
    ELSE LET first == ProcessDetection(om, Head(detections), t)
             rest == process_detections(first.om, Tail(detections), t)
         IN  [om |-> rest.om, count |-> first.count + rest.count]

----------------------------------------------------------------------------
(* ObjectManager.update_trackers: the threat score is the numerator of a   *)
(* fraction over ThreatDen.                                                *)

ThreatUnit == FrameW * FrameH * FrameW
ThreatDen == 10 * ThreatUnit

ThreatScore(bbox) ==
    LET area == bbox[3] * bbox[4]
        frame_area == FrameH * FrameW
        \* size_score = min(1, area / (frame_area * 0.5)), over frame_area
        size_num == Min(frame_area, 2 * area)
        \* centrality_score = 1 - min(1, |center_x - W/2| / (W/2)), over W
        cent_num == FrameW - Min(FrameW, Abs(2 * bbox[1] + bbox[3] - FrameW))
    IN  7 * FrameW * size_num + 3 * frame_area * cent_num

\* threat_score > n/10
ThreatGreater(score, tenths) == score > tenths * ThreatUnit

\* the loop iteration that marks a loss without recording when
TrackOne_NoStamp(obj, result, t) ==
    IF obj.tracker = NoBox \/ result.kind = "fail"
    THEN [obj EXCEPT !.is_lost = TRUE]
    ELSE IF result.kind = "ok"
    THEN [obj EXCEPT !.bbox = result.bbox, !.is_lost = FALSE,
                     !.lost_time = NoTime,
                     !.threat_score = ThreatScore(result.bbox)]
    ELSE obj

\* the loop iteration with the loss stamped on every failing tick
TrackOne_Restamp(obj, result, t) ==
    IF obj.tracker = NoBox \/ result.kind = "fail"
    THEN [obj EXCEPT !.is_lost = TRUE, !.lost_time = t]
    ELSE IF result.kind = "ok"
    THEN [obj EXCEPT !.bbox = result.bbox, !.is_lost = FALSE,
                     !.lost_time = NoTime,
                     !.threat_score = ThreatScore(result.bbox)]
    ELSE obj

\* the loop iteration with the score of an object cleared when its tracker
\* loses it
TrackOne_ResetScore(obj, result, t) ==
    IF obj.tracker = NoBox
    THEN IF ~obj.is_lost
         THEN [obj EXCEPT !.is_lost = TRUE, !.lost_time = t]
         ELSE obj
    ELSE IF result.kind = "ok"
    THEN [obj EXCEPT !.bbox = result.bbox, !.is_lost = FALSE,
                     !.lost_time = NoTime,
                     !.threat_score = ThreatScore(result.bbox)]
    ELSE IF result.kind = "fail"
    THEN [obj EXCEPT !.is_lost = TRUE,
                     !.lost_time = IF obj.is_lost THEN obj.lost_time ELSE t,
                     !.threat_score = 0]
    ELSE obj

\* the effect of one loop iteration on one object; result is what
\* obj.tracker.update(frame) does: [kind: "ok" | "fail" | "raise", bbox]
TrackOne(obj, result, t) ==
    IF obj.tracker = NoBox
    THEN IF ~obj.is_lost
         THEN [obj EXCEPT !.is_lost = TRUE, !.lost_time = t]
         ELSE obj
    ELSE IF result.kind = "ok"
    THEN [obj EXCEPT !.bbox = result.bbox, !.is_lost = FALSE,
                     !.lost_time = NoTime,
                     !.threat_score = ThreatScore(result.bbox)]
    ELSE IF result.kind = "fail"
    THEN IF ~obj.is_lost
         THEN [obj EXCEPT !.is_lost = TRUE, !.lost_time = t]
         ELSE obj
    ELSE obj

\* the tick with the objects whose update failed taken out of the list
update_trackers_DropFailed(om, results, t) ==
    [om EXCEPT !.objs =
        [i \in DOMAIN om.objs |->
            IF i \in Range(om.list) THEN TrackOne(om.objs[i], results[i], t)
            ELSE om.objs[i]],
               !.list = SelectSeq(om.list, LAMBDA i : results[i].kind # "fail")]

\* results: the tracker outcome of every object in the list, by id
update_trackers(om, results, t) ==
    [om EXCEPT !.objs =
        [i \in DOMAIN om.objs |->
            IF i \in Range(om.list) THEN TrackOne(om.objs[i], results[i], t)
            ELSE om.objs[i]]]

\* init_tracker seeds a tracker with the object's current bbox
init_tracker(om, obj_id) ==
    IF obj_id \in Range(om.list) /\ om.objs[obj_id].bbox # NoBox
    THEN [om EXCEPT !.objs[obj_id].tracker = om.objs[obj_id].bbox]
    ELSE om

init_all_trackers(om) ==
    [om EXCEPT !.objs =
        [i \in DOMAIN om.objs |->
            IF i \in Range(om.list) /\ om.objs[i].tracker = NoBox
            THEN [om.objs[i] EXCEPT !.tracker = om.objs[i].bbox]
            ELSE om.objs[i]]]

\* the test with the boundary age kept
IsFresh_Inclusive(obj, max_age, t) == (t - obj.last_verified) <= max_age

\* cleanup_stale_trackers keeps the objects with now - last_verified < max_age
IsFresh(obj, max_age, t) == (t - obj.last_verified) < max_age

cleanup_stale_trackers(om, max_age, t) ==
    LET kept == SelectSeq(om.list, LAMBDA i : IsFresh(om.objs[i], max_age, t))
    IN  [om |-> [om EXCEPT !.list = kept],
         ret |-> Len(om.list) - Len(kept) > 0]

----------------------------------------------------------------------------
(* Local recovery (VisionController.attempt_local_recovery) and the        *)
(* template refresh of vision_worker.  A template is the <<w, h>> of the   *)
(* captured patch; match is where cv2.matchTemplate scored above 0.7       *)
(* (<<x, y>>), or NoBox when no location did.                              *)

\* ObjectManager.update_template: the clamped patch, skipped under 10 px
update_template(obj, t) ==
    LET x == Max(0, Min(obj.bbox[1], FrameW - 1))
        y == Max(0, Min(obj.bbox[2], FrameH - 1))
        w == Max(1, Min(obj.bbox[3], FrameW - x))
        h == Max(1, Min(obj.bbox[4], FrameH - y))
    IN  IF obj.bbox = NoBox \/ w < 10 \/ h < 10 THEN obj
        ELSE [obj EXCEPT !.template = <<w, h>>, !.last_template_update = t]

attempt_local_recovery(obj, match) ==
    IF obj.template = NoBox THEN NoBox
    ELSE IF obj.template[2] > FrameH \/ obj.template[1] > FrameW THEN NoBox
    ELSE IF match = NoBox THEN NoBox
    ELSE <<match[1], match[2], obj.template[1], obj.template[2]>>

\* the recovery branch taken without looking at the search's success flag
RecoverOne_Unchecked(obj, match, t) ==
    IF obj.is_lost /\ obj.template # NoBox
    THEN LET new_bbox == IF match = NoBox THEN obj.bbox
                         ELSE attempt_local_recovery(obj, match)
         IN  update_template([obj EXCEPT !.bbox = new_bbox,
                                         !.tracker = new_bbox,
                                         !.is_lost = FALSE,
                                         !.lost_time = NoTime], t)
    ELSE IF ~obj.is_lost /\ obj.tracker # NoBox
    THEN IF t - obj.last_template_update > 1 THEN update_template(obj, t)
         ELSE obj
    ELSE obj

\* main_enhanced.py lines 357-373 for one object
RecoverOne(obj, match, t) ==
    IF obj.is_lost /\ obj.template # NoBox
    THEN LET new_bbox == attempt_local_recovery(obj, match)
         IN  IF new_bbox # NoBox
             THEN update_template([obj EXCEPT !.bbox = new_bbox,
                                              !.tracker = new_bbox,
                                              !.is_lost = FALSE,
                                              !.lost_time = NoTime], t)
             ELSE obj
    ELSE IF ~obj.is_lost /\ obj.tracker # NoBox
    THEN IF t - obj.last_template_update > 1 THEN update_template(obj, t)
         ELSE obj
    ELSE obj

local_recovery(om, matches, t) ==
    [om EXCEPT !.objs =
        [i \in DOMAIN om.objs |->
            IF i \in Range(om.list) THEN RecoverOne(om.objs[i], matches[i], t)
            ELSE om.objs[i]]]

----------------------------------------------------------------------------
(* ModeController.get_main_threat / check_lost_threats / set_mode          *)

NoId == 0 - 1

\* sorted(objects, key=threat_score, reverse=True)[0]: the sort is stable,
\* so among equal scores the first object in list order comes first
get_main_threat(om) ==
    IF om.list = <<>> THEN NoId
    ELSE LET best == CHOOSE i \in 1..Len(om.list) :
                 /\ \A j \in 1..Len(om.list) :
                        om.objs[om.list[j]].threat_score
                            <= om.objs[om.list[i]].threat_score
                 /\ \A j \in 1..(i - 1) :
                        om.objs[om.list[j]].threat_score
                            < om.objs[om.list[i]].threat_score
         IN  om.list[best]

\* the test with the timeout reached rather than exceeded
ThreatIsLost_AtTimeout(obj, t) ==
    /\ obj.is_lost
    /\ obj.lost_time # NoTime
    /\ ThreatGreater(obj.threat_score, 3)
    /\ t - obj.lost_time >= LostTimeout

\* lines 316-320: the test that triggers the re-scan
ThreatIsLost(obj, t) ==
    /\ obj.is_lost
    /\ obj.lost_time # NoTime
    /\ ThreatGreater(obj.threat_score, 3)
    /\ t - obj.lost_time > LostTimeout

check_lost_threats(om, t) ==
    LET main_threat == get_main_threat(om)
    IN  IF main_threat = NoId THEN [om |-> om, ret |-> FALSE]
        ELSE IF ThreatIsLost(om.objs[main_threat], t)
        THEN [om |-> remove_object(om, main_threat), ret |-> TRUE]
        ELSE [om |-> om, ret |-> FALSE]

\* config.MODE_CONFIGS keys and config.DEFAULT_MODE
MODE_CONFIGS == {"navigation", "obstacle", "social", "exploration"}
DEFAULT_MODE == "exploration"

\* config.MAX_TRACKED_OBJECTS, the default of get_max_objects
MAX_TRACKED_OBJECTS == 5

\* ModeController.get_max_objects: the "max_objects" entry of the mode
get_max_objects(mode) ==
    IF mode = "navigation" THEN 1
    ELSE IF mode \in MODE_CONFIGS THEN 5
    ELSE MAX_TRACKED_OBJECTS

\* ModeController.should_filter_objects / get_object_filter: only the social
\* mode has a "filter" entry, ["person"]
should_filter_objects(mode) == mode = "social"
get_object_filter(mode) == IF mode = "social" THEN {<<"p">>} ELSE {}

\* set_mode without the early return of line 39
set_mode_NoEarlyReturn(cur, mode) ==
    IF mode \notin MODE_CONFIGS THEN [mode |-> cur, cleared |-> FALSE, ret |-> FALSE]
    ELSE [mode |-> mode, cleared |-> TRUE, ret |-> TRUE]

\* set_mode: [mode, cleared, ret]
set_mode(cur, mode) ==
    IF mode \notin MODE_CONFIGS THEN [mode |-> cur, cleared |-> FALSE, ret |-> FALSE]
    ELSE IF mode = cur THEN [mode |-> cur, cleared |-> FALSE, ret |-> TRUE]
    ELSE [mode |-> mode, cleared |-> TRUE, ret |-> TRUE]

----------------------------------------------------------------------------
(* The heap of list objects.  Three references exist: om_objects,          *)
(* tracked_objects and the UI loop's local `objects`; list(...) and list   *)
(* comprehensions allocate a new cell.  States are kept canonical:         *)
(* om_objects is cell 0, cells are numbered in the order om, snapshot, UI  *)
(* local, and unreferenced cells and objects are dropped.                  *)

Refs == 0..2
NoRef == 0 - 1

\* a new list object holding content
Alloc(ls, content) ==
    LET r == Cardinality(DOMAIN ls)
    IN  [lists |-> ls @@ (r :> content), ref |-> r]

Canon(ls, om, snap, ui) ==
    LET nsnap == IF snap = om THEN 0 ELSE 1
        nui == IF ui = NoRef THEN NoRef
               ELSE IF ui = om THEN 0
               ELSE IF ui = snap THEN nsnap
               ELSE nsnap + 1
        cell(r) == IF r = 0 THEN ls[om]
                   ELSE IF r = nsnap THEN ls[snap]
                   ELSE IF r = nui THEN ls[ui]
                   ELSE <<>>
    IN  [lists |-> [r \in Refs |-> cell(r)], om |-> 0, snap |-> nsnap, ui |-> nui]

Collect(o, ls) ==
    [i \in (DOMAIN o) \cap UNION {Range(ls[r]) : r \in DOMAIN ls} |-> o[i]]

\* the next heap: object heap o, list heap ls and the three references
SetHeap(o, ls, om, snap, ui) ==
    LET c == Canon(ls, om, snap, ui)
    IN  /\ lists' = c.lists
        /\ om_objects' = c.om
        /\ tracked_objects' = c.snap
        /\ ui_objects' = c.ui
        /\ objs' = Collect(o, c.lists)

\* the ObjectManager as the operations see it
OM == [objs |-> objs, list |-> lists[om_objects], next_id |-> next_id]

\* what an operation found: kept in `last` for the properties
Pre == [objs |-> objs, list |-> lists[om_objects], next_id |-> next_id,
        mode |-> current_mode, t |-> now, queue |-> command_queue]

\* an operation that mutated the objects or the list in place
StoreInPlace(om2) ==
    /\ SetHeap(om2.objs, [lists EXCEPT ![om_objects] = om2.list],
               om_objects, tracked_objects, ui_objects)
    /\ next_id' = om2.next_id

\* an operation that assigned a new list to ObjectManager.objects
StoreRebound(om2) ==
    LET a == Alloc(lists, om2.list)
    IN  /\ SetHeap(om2.objs, a.lists, a.ref, tracked_objects, ui_objects)
        /\ next_id' = om2.next_id

----------------------------------------------------------------------------
(* Inputs                                                                  *)

\* normalised boxes [y_min, x_min, y_max, x_max]; in a 640x480 frame:
BoxA == <<0, 0, 500, 500>>        \* (0, 0, 320, 240)
BoxB == <<0, 0, 500, 400>>        \* (0, 0, 256, 240): IoU 0.8 with A
BoxC == <<0, 250, 500, 750>>      \* (160, 0, 320, 240): IoU 1/3 with A, 0.2 with B
BoxE == <<0, 0, 500, 300>>        \* (0, 0, 192, 240): IoU 0.6 with A
BoxF == <<0, 0, 500, 50>>         \* (0, 0, 32, 240): IoU 0.1 with A
BoxS == <<0, 0, 5, 5>>            \* 3 x 2 px: discarded
BoxBad == <<0, 0, 500>>           \* not four coordinates: skipped

Person == <<"p">>
Cup == <<"c">>
CupOnTable == <<"c", " ", "[", " ", "t", "]">>


\* what a cv2 tracker can answer: a box at the centre (threat score 0.65)
\* or a narrow one left of it (0.235), both overlapping BoxA and BoxC by
\* more than 0.1; or a failure, or an exception
TrackBoxes == {<<160, 120, 320, 240>>, <<144, 0, 64, 240>>}
TrackFail == [kind : {"fail"}, bbox : {NoBox}]
TrackResults ==
    [kind : {"ok"}, bbox : TrackBoxes] \cup [kind : {"fail", "raise"}, bbox : {NoBox}]

\* the tracker follows the object or loses it
TrackSys == [kind : {"ok"}, bbox : {<<160, 120, 320, 240>>}] \cup TrackFail

\* where template matching can find the patch
Matches == {NoBox, <<0, 0>>}

Modes == MODE_CONFIGS \cup {"party"}

----------------------------------------------------------------------------
(* Initial state: ModeController(), ObjectManager(), SharedGameState(),    *)
(* VisionController() just constructed, no thread past its first line.     *)

\* search_result = None
None == [some |-> FALSE, val |-> <<>>]
Some(v) == [some |-> TRUE, val |-> v]

\* HRTF_AudioController(): self.sources = {}, no OpenAL source generated
NoAudio == [sources |-> <<>>, gains |-> <<>>, live |-> {}]

\* MultiAudioController(): self.sources = {}, nothing written yet
NoMixer == [sources |-> <<>>, out |-> <<>>]

\* VoiceController(): no speak() running, no player process
\* the three threads that call the queue methods
QThreads == {"ui", "voice", "vision"}

\* nobody holds SharedGameState._lock, no call in progress
NoCallers ==
    [lock |-> "free",
     pc |-> [t \in QThreads |-> "idle"],
     op |-> [t \in QThreads |-> "none"],
     arg |-> [t \in QThreads |-> 0],
     added |-> <<>>, got |-> <<>>]

\* main() has started the audio update loop (line 252) and the vision thread
\* (line 396) and is at the top of the UI loop; no voice worker exists
NoLoops ==
    [vision |-> "top", ui |-> "top", running |-> TRUE, audio |-> <<"top">>,
     voicew |-> "none",
     did |-> [who |-> "none", touched |-> {}, stopped |-> FALSE]]

\* audio_hrtf imported with PyOpenAL present (lines 15-21); no controller
\* constructed yet, so none of its attributes exists
NoHrtf == [available |-> TRUE, built |-> FALSE, running |-> FALSE,
           shared_state |-> FALSE]

\* the three locks of the system and the threads that take them
LockNames == {"state", "search", "sources"}
LThreads == {"ui", "vision", "worker", "audio", "voice"}

\* every lock free, every thread outside any with block
NoLocks == [holder |-> [l \in LockNames |-> "free"],
            pc |-> [t \in LThreads |-> [section |-> "none", at |-> 0]]]

NoTts == [current |-> 0 - 1, procs |-> <<>>, threads |-> <<>>, requests |-> 0]

\* nothing destroyed, nothing signalled, nothing published again
NoHist == [destroyed |-> {}, signals |-> <<>>, republished |-> {}]

Init ==
    /\ now = 1
    /\ objs = <<>>
    /\ lists = [r \in Refs |-> <<>>]
    /\ om_objects = 0
    /\ next_id = 0
    /\ current_mode = DEFAULT_MODE
    /\ tracked_objects = 1
    /\ tracking_status = "READY"
    /\ latest_frame = FALSE
    /\ command_queue = <<>>
    /\ is_running = TRUE
    /\ is_searching = FALSE
    /\ search_result = None
    /\ workers = 0
    /\ v_pc = "detect"
    /\ ui_pc = "read"
    /\ ui_objects = NoRef
    /\ voice = [is_recording |-> FALSE, threads |-> 0]
    /\ last = [op |-> "init", arg |-> <<>>, ret |-> 0, pre |-> <<>>]
    /\ hist = NoHist
    /\ audio = NoAudio
    /\ mixer = NoMixer
    /\ tts = NoTts
    /\ callers = NoCallers
    /\ loops = NoLoops
    /\ hrtf = NoHrtf
    /\ locks = NoLocks

----------------------------------------------------------------------------
(* The operations called one at a time (no thread interleaving)            *)

\* what an operation found, kept for the properties stated on its outcome
Snapshot(keep) == IF keep THEN Pre ELSE <<>>

idleVars == <<tracking_status, latest_frame, is_running, vcVars, v_pc, ui_pc, voice, hist,
              audio, extVars>>
restVars == <<command_queue, idleVars>>

\* SharedGameState.add_command
add_command(queue, command) == Append(queue, command)

Tick(d, limit) ==
    /\ now + d <= limit
    /\ now' = now + d
    /\ last' = [op |-> "tick", arg |-> d, ret |-> 0, pre |-> <<>>]
    /\ UNCHANGED <<omVars, restVars, ui_objects, tracked_objects>>

CallProcessDetections(batch, limit, keep) ==
    LET r == process_detections(OM, batch, now)
    IN  /\ r.om.next_id <= limit
        /\ StoreInPlace(r.om)
        /\ last' = [op |-> "process_detections", arg |-> batch, ret |-> r.count,
                    pre |-> Snapshot(keep)]
        /\ UNCHANGED <<now, current_mode, restVars>>

\* vision_worker lines 291-304: a finished detection is merged and the new
\* objects get their trackers
CallVisionResult(batch, limit) ==
    LET r == process_detections(OM, batch, now)
    IN  /\ r.om.next_id <= limit
        /\ StoreInPlace(IF r.count > 0 THEN init_all_trackers(r.om) ELSE r.om)
        /\ last' = [op |-> "vision_result", arg |-> batch, ret |-> r.count,
                    pre |-> <<>>]
        /\ UNCHANGED <<now, current_mode, restVars>>

CallUpdateTrackers(results, keep) ==
    /\ lists[om_objects] # <<>>
    /\ StoreInPlace(update_trackers(OM, results, now))
    /\ last' = [op |-> "update_trackers", arg |-> results, ret |-> 0, pre |-> Snapshot(keep)]
    /\ UNCHANGED <<now, current_mode, restVars>>

CallInitAllTrackers(keep) ==
    /\ StoreInPlace(init_all_trackers(OM))
    /\ last' = [op |-> "init_all_trackers", arg |-> <<>>, ret |-> 0, pre |-> Snapshot(keep)]
    /\ UNCHANGED <<now, current_mode, restVars>>

CallLocalRecovery(matches, keep) ==
    /\ StoreInPlace(local_recovery(OM, matches, now))
    /\ last' = [op |-> "local_recovery", arg |-> matches, ret |-> 0, pre |-> Snapshot(keep)]
    /\ UNCHANGED <<now, current_mode, restVars>>

\* vision_worker lines 375-378: the cleanup and the re-scan it triggers
CallCleanup(keep) ==
    LET r == cleanup_stale_trackers(OM, MaxAge, now)
    IN  /\ StoreRebound(r.om)
        /\ command_queue' = IF r.ret THEN add_command(command_queue, "detect")
                            ELSE command_queue
        /\ last' = [op |-> "cleanup_stale_trackers", arg |-> MaxAge, ret |-> r.ret,
                    pre |-> Snapshot(keep)]
        /\ UNCHANGED <<now, current_mode, idleVars>>

\* vision_worker lines 380-384: the lost-threat check and its re-scan
CallCheckLostThreats(keep) ==
    LET r == check_lost_threats(OM, now)
    IN  /\ IF r.ret THEN StoreRebound(r.om) ELSE StoreInPlace(r.om)
        /\ command_queue' = IF r.ret THEN add_command(command_queue, "detect")
                            ELSE command_queue
        /\ last' = [op |-> "check_lost_threats", arg |-> <<>>, ret |-> r.ret,
                    pre |-> Snapshot(keep)]
        /\ UNCHANGED <<now, current_mode, idleVars>>

CallSetMode(mode, keep) ==
    LET r == set_mode(current_mode, mode)
    IN  /\ current_mode' = r.mode
        /\ StoreInPlace(IF r.cleared THEN clear(OM) ELSE OM)
        /\ last' = [op |-> "set_mode", arg |-> mode, ret |-> r.ret,
                    pre |-> Snapshot(keep)]
        /\ UNCHANGED <<now, restVars>>

\* ObjectManager.clear() called from the key handlers
CallClear(keep) ==
    /\ StoreInPlace(clear(OM))
    /\ last' = [op |-> "clear", arg |-> <<>>, ret |-> 0, pre |-> Snapshot(keep)]
    /\ UNCHANGED <<now, current_mode, restVars>>

----------------------------------------------------------------------------
(* Detection reconciliation on its own: batches arrive, the tracker-less   *)
(* objects go lost at the next tracker tick, time passes.                  *)

MaxTimePD == 3

DetectionsPD ==
    [box_2d : {BoxA, BoxB, BoxC, BoxE, BoxF}, label : {Cup}]
        \cup [box_2d : {BoxA, BoxS}, label : {CupOnTable}]
        \cup [box_2d : {BoxC, BoxBad}, label : {Person}]

BatchesPD ==
    {<<d>> : d \in DetectionsPD}
        \cup {<<[box_2d |-> BoxA, label |-> Cup], [box_2d |-> BoxC, label |-> Person]>>,
              <<[box_2d |-> BoxBad, label |-> Person], [box_2d |-> BoxF, label |-> Cup]>>}

NextPD ==
    \/ Tick(2, MaxTimePD)
    \/ \E batch \in BatchesPD : CallProcessDetections(batch, MaxId, TRUE)
    \/ \E results \in [DOMAIN objs -> TrackFail] :
           CallUpdateTrackers(results, FALSE)

SpecPD == Init /\ [][NextPD]_vars

----------------------------------------------------------------------------
(* Properties of process_detections, stated on the state after a call      *)
(* with a one-detection batch: last.pre is what the call found.            *)

PDOne == last.op = "process_detections" /\ Len(last.arg) = 1
PDBox == PixelBox(last.arg[1].box_2d)
PDLabel == ParseLabel(last.arg[1].label).label
PDContext == ParseLabel(last.arg[1].label).context

\* the k-th object the call found, and its overlap with the detection
PreObj(k) == last.pre.objs[last.pre.list[k]]
PreIoU(k) == compute_iou(PreObj(k).bbox, PDBox)
SameLabelAt(k) == PreObj(k).label = PDLabel
\* a same-label object earlier in list order overlaps the detection by > 0.1
EarlierMatch(k) ==
    \E j \in 1..(k - 1) : SameLabelAt(j) /\ IoUGreater(PreIoU(j), 1)

\* C1 as stated: a tracked same-label object keeps its bbox when IoU <= 0.6
\* and takes the detection's pixel bbox when IoU > 0.6.
C1_Original ==
    (PDOne /\ PDBox # NoBox) =>
        \A k \in 1..Len(last.pre.list) :
            (SameLabelAt(k) /\ ~PreObj(k).is_lost) =>
                objs[last.pre.list[k]].bbox =
                    IF IoUGreater(PreIoU(k), 6) THEN PDBox ELSE PreObj(k).bbox

\* C1 amended: a tracked same-label object keeps its bbox when IoU <= 0.6;
\* it takes the detection's pixel bbox when IoU > 0.6 and no same-label
\* object earlier in list order overlaps the detection by more than 0.1
\* (the scan stops at the first match); otherwise it keeps its bbox.
C1_Amended ==
    (PDOne /\ PDBox # NoBox) =>
        \A k \in 1..Len(last.pre.list) :
            (SameLabelAt(k) /\ ~PreObj(k).is_lost) =>
                objs[last.pre.list[k]].bbox =
                    IF IoUGreater(PreIoU(k), 6) /\ ~EarlierMatch(k)
                    THEN PDBox ELSE PreObj(k).bbox

\* a tracked object was moved by a detection that overlaps it by > 0.6
C1_Witness ==
    /\ PDOne /\ PDBox # NoBox
    /\ \E k \in 1..Len(last.pre.list) :
           /\ SameLabelAt(k) /\ ~PreObj(k).is_lost
           /\ IoUGreater(PreIoU(k), 6)
           /\ PreObj(k).bbox # PDBox
           /\ objs[last.pre.list[k]].bbox = PDBox

\* C2 as stated: a lost same-label object with IoU > 0.1 is accepted:
\* bbox replaced, is_lost and lost_time cleared.
C2_Original ==
    (PDOne /\ PDBox # NoBox) =>
        \A k \in 1..Len(last.pre.list) :
            (SameLabelAt(k) /\ PreObj(k).is_lost /\ IoUGreater(PreIoU(k), 1)) =>
                /\ objs[last.pre.list[k]].bbox = PDBox
                /\ ~objs[last.pre.list[k]].is_lost
                /\ objs[last.pre.list[k]].lost_time = NoTime

\* C2 amended: a lost same-label object with IoU > 0.1 is accepted (bbox
\* replaced, is_lost and lost_time cleared) when no same-label object
\* earlier in list order overlaps the detection by more than 0.1, and is
\* left as it was otherwise.
C2_Amended ==
    (PDOne /\ PDBox # NoBox) =>
        \A k \in 1..Len(last.pre.list) :
            (SameLabelAt(k) /\ PreObj(k).is_lost /\ IoUGreater(PreIoU(k), 1)) =>
                IF ~EarlierMatch(k)
                THEN /\ objs[last.pre.list[k]].bbox = PDBox
                     /\ ~objs[last.pre.list[k]].is_lost
                     /\ objs[last.pre.list[k]].lost_time = NoTime
                ELSE objs[last.pre.list[k]] = PreObj(k)

\* a lost object was recovered by a detection that overlaps it by <= 0.6
C2_Witness ==
    /\ PDOne /\ PDBox # NoBox
    /\ \E k \in 1..Len(last.pre.list) :
           /\ SameLabelAt(k) /\ PreObj(k).is_lost
           /\ IoUGreater(PreIoU(k), 1) /\ ~IoUGreater(PreIoU(k), 6)
           /\ PreObj(k).bbox # PDBox
           /\ objs[last.pre.list[k]].bbox = PDBox
           /\ ~objs[last.pre.list[k]].is_lost

\* the metadata refresh of lines 201-205 happened to object k
Refreshed(k) ==
    LET o == objs[last.pre.list[k]]
    IN  /\ o.last_verified = last.pre.t
        /\ o.context = PDContext
        /\ ~o.is_lost
        /\ o.lost_time = NoTime

\* C3 as stated: IoU > 0.1 with a same-label object refreshes last_verified,
\* replaces context and clears is_lost/lost_time; IoU <= 0.1 changes no field.
C3_Original ==
    (PDOne /\ PDBox # NoBox) =>
        \A k \in 1..Len(last.pre.list) :
            SameLabelAt(k) =>
                IF IoUGreater(PreIoU(k), 1) THEN Refreshed(k)
                ELSE objs[last.pre.list[k]] = PreObj(k)

\* C3 amended: the first same-label object in list order with IoU > 0.1 has
\* last_verified refreshed, context replaced and is_lost/lost_time cleared,
\* whether or not its bbox was replaced; every other object (IoU <= 0.1,
\* another label, or a later match) has no field changed.
C3_Amended ==
    (PDOne /\ PDBox # NoBox) =>
        \A k \in 1..Len(last.pre.list) :
            IF SameLabelAt(k) /\ IoUGreater(PreIoU(k), 1) /\ ~EarlierMatch(k)
            THEN Refreshed(k)
            ELSE objs[last.pre.list[k]] = PreObj(k)

\* an object verified earlier, with another context, was refreshed by a
\* detection that did not move it
C3_Witness ==
    /\ PDOne /\ PDBox # NoBox
    /\ \E k \in 1..Len(last.pre.list) :
           /\ SameLabelAt(k) /\ IoUGreater(PreIoU(k), 1) /\ ~EarlierMatch(k)
           /\ PreObj(k).last_verified < last.pre.t
           /\ PreObj(k).context # PDContext
           /\ objs[last.pre.list[k]].bbox = PreObj(k).bbox
           /\ PreObj(k).bbox # PDBox
           /\ Refreshed(k)

\* C4: a valid-sized detection creates an object exactly when no same-label
\* object overlaps it by more than 0.1, and every call returns the number
\* of objects it appended (list length and next_id grow by the count).
C4_CreatesIffUnmatched ==
    /\ last.op = "process_detections" =>
           /\ Len(lists[om_objects]) = Len(last.pre.list) + last.ret
           /\ next_id = last.pre.next_id + last.ret
           /\ SubSeq(lists[om_objects], 1, Len(last.pre.list)) = last.pre.list
    /\ PDOne =>
           (last.ret = 1 <=>
               /\ PDBox # NoBox
               /\ \A k \in 1..Len(last.pre.list) :
                      SameLabelAt(k) => ~IoUGreater(PreIoU(k), 1))

\* a detection that overlapped a same-label object by 0.1 or less, beside
\* an object of another label, created a second object
C4_Witness ==
    /\ PDOne /\ last.ret = 1 /\ Len(last.pre.list) = 1
    /\ SameLabelAt(1) /\ ~IoUGreater(PreIoU(1), 1)
    /\ objs[lists[om_objects][2]].bbox = PDBox

----------------------------------------------------------------------------
(* Lost-threat handling on its own: two objects are detected, trackers are *)
(* seeded and answer or fail tick by tick, time passes, and the main       *)
(* threat is checked.                                                      *)

MaxTimeThreat == 5

BatchesThreat ==
    {<<[box_2d |-> BoxA, label |-> Cup]>>, <<[box_2d |-> BoxC, label |-> Person]>>}

TrackThreat == [kind : {"ok"}, bbox : TrackBoxes] \cup TrackFail

NextThreat ==
    \/ Tick(2, MaxTimeThreat)
    \/ \E batch \in BatchesThreat : CallVisionResult(batch, MaxId)
    \/ \E results \in [DOMAIN objs -> TrackThreat] :
           CallUpdateTrackers(results, FALSE)
    \/ CallCheckLostThreats(TRUE)

SpecThreat == Init /\ [][NextThreat]_vars

CLT == last.op = "check_lost_threats"
PreScore(k) == PreObj(k).threat_score
\* the k-th object has the highest score, and is the first to have it
PreMain(k) ==
    /\ \A j \in 1..Len(last.pre.list) : PreScore(j) <= PreScore(k)
    /\ \A j \in 1..(k - 1) : PreScore(j) < PreScore(k)
PreTimedOut(k) ==
    /\ PreObj(k).is_lost
    /\ last.pre.t - PreObj(k).lost_time > LostTimeout
    /\ ThreatGreater(PreScore(k), 3)
\* the list without its k-th element
Without(list, k) == SubSeq(list, 1, k - 1) \o SubSeq(list, k + 1, Len(list))
\* every object still in the collection is as the call found it
RestUntouched == \A i \in Range(lists[om_objects]) : objs[i] = last.pre.objs[i]

----------------------------------------------------------------------------
(* Staleness eviction on its own: objects are detected at different times, *)
(* trackers follow them or lose them, time passes in steps that reach an   *)
(* age of exactly max_age, and the cleanup pass runs.                      *)

MaxTimeStale == 46

NextStale ==
    \/ Tick(15, MaxTimeStale)
    \/ \E batch \in BatchesThreat : CallVisionResult(batch, MaxId)
    \/ \E results \in [DOMAIN objs -> TrackSys] :
           CallUpdateTrackers(results, TRUE)
    \/ CallCleanup(TRUE)

SpecStale == Init /\ [][NextStale]_vars

CST == last.op = "cleanup_stale_trackers"
PreAge(k) == last.pre.t - PreObj(k).last_verified
\* a tracker update leaves the collection and last_verified alone
TrackerKeepsVerified ==
    last.op = "update_trackers" =>
        /\ lists[om_objects] = last.pre.list
        /\ \A i \in Range(last.pre.list) :
               objs[i].last_verified = last.pre.objs[i].last_verified
\* the call returns true exactly when it removed something, and the loop
\* then enqueues one 'detect'
CleanupSignals ==
    CST =>
        /\ last.ret = (Len(lists[om_objects]) < Len(last.pre.list))
        /\ command_queue =
               IF last.ret THEN Append(last.pre.queue, "detect") ELSE last.pre.queue

----------------------------------------------------------------------------
(* Mode switching on its own: objects are detected, followed or lost, and  *)
(* set_mode is called with every mode name and with an unknown one.        *)

NextMode ==
    \/ \E batch \in BatchesThreat : CallVisionResult(batch, MaxId)
    \/ \E results \in [DOMAIN objs -> TrackThreat] :
           CallUpdateTrackers(results, FALSE)
    \/ \E mode \in Modes : CallSetMode(mode, TRUE)

SpecMode == Init /\ [][NextMode]_vars

SM == last.op = "set_mode"
\* the mode, the collection and its objects are as the call found them
ModeUntouched ==
    /\ current_mode = last.pre.mode
    /\ lists[om_objects] = last.pre.list
    /\ RestUntouched

\* C9: set_mode with a valid mode other than the current one sets the mode
\* and leaves the tracked set empty; with the current mode it returns True
\* and changes nothing; with an invalid mode it returns False and changes
\* nothing.
C9_SetMode ==
    SM =>
        IF last.arg \notin MODE_CONFIGS
        THEN last.ret = FALSE /\ ModeUntouched
        ELSE IF last.arg = last.pre.mode
        THEN last.ret = TRUE /\ ModeUntouched
        ELSE /\ last.ret = TRUE
             /\ current_mode = last.arg
             /\ lists[om_objects] = <<>>

\* a switch to another valid mode emptied a set of two objects
C9_Witness ==
    /\ SM /\ last.arg \in MODE_CONFIGS /\ last.arg # last.pre.mode
    /\ last.ret = TRUE /\ current_mode = last.arg
    /\ Len(last.pre.list) = 2 /\ lists[om_objects] = <<>>

----------------------------------------------------------------------------
(* VisionController: the asynchronous detection                            *)

VC == [is_searching |-> is_searching, search_result |-> search_result,
       workers |-> workers]

\* check_reacquisition_result: [vc, ret]
check_reacquisition_result(vc) ==
    IF vc.is_searching THEN [vc |-> vc, ret |-> None]
    ELSE [vc |-> [vc EXCEPT !.search_result = None], ret |-> vc.search_result]

\* start_reacquisition_multi without the test under search_lock
start_reacquisition_multi_Unguarded(vc) ==
    [vc |-> [is_searching |-> TRUE, search_result |-> None,
             workers |-> vc.workers + 1],
     ret |-> TRUE]

\* start_reacquisition_multi: [vc, ret]; a started thread is one more worker
start_reacquisition_multi(vc) ==
    IF vc.is_searching THEN [vc |-> vc, ret |-> FALSE]
    ELSE [vc |-> [is_searching |-> TRUE, search_result |-> None,
                  workers |-> vc.workers + 1],
          ret |-> TRUE]

----------------------------------------------------------------------------
(* The threads: vision_worker, the UI loop, the detection worker and       *)
(* process_voice_thread, interleaved at the granularity of the steps below *)

MaxTimeSys == 4      \* the clock stops here
MaxQueue == 1        \* commands waiting at once
MaxVoiceThreads == 1 \* process_voice_thread instances alive at once

\* what the detection worker can bring back
BatchesSys == {<<>>, <<[box_2d |-> BoxA, label |-> Cup]>>}

\* template matching finds nothing
MatchesSys == {NoBox}

\* the keys pressed here; M (the mode cycle) is exercised in SpecMode
Keys == {"none", "q", "f", "c", "s", "n", "r"}

\* the M key cycles navigation, obstacle, social, exploration
NextModeOf(mode) ==
    CASE mode = "navigation" -> "obstacle"
      [] mode = "obstacle" -> "social"
      [] mode = "social" -> "exploration"
      [] OTHER -> "navigation"

NoOp == [op |-> "none", arg |-> <<>>, ret |-> 0, pre |-> <<>>]

\* history: the ids in gone were destroyed
Destroyed(h, gone) == [h EXCEPT !.destroyed = @ \cup gone]
\* history: a re-scan was signalled for each id in ids (counted up to 2)
Signalled(h, ids) ==
    [h EXCEPT !.signals =
        [i \in (DOMAIN @) \cup ids |->
            IF i \notin ids THEN @[i]
            ELSE IF i \in DOMAIN @ THEN Min(2, @[i] + 1) ELSE 1]]

\* vision_worker lines 283-339: pick up a finished detection, then handle
\* one command
VisionDetect ==
    /\ is_running /\ latest_frame /\ v_pc = "detect"
    /\ LET chk == check_reacquisition_result(VC)
           pd == IF chk.ret.some THEN process_detections(OM, chk.ret.val, now)
                 ELSE [om |-> OM, count |-> 0]
           om1 == IF pd.count > 0 THEN init_all_trackers(pd.om) ELSE pd.om
           command == IF command_queue = <<>> THEN "None" ELSE Head(command_queue)
           vc1 == IF command = "detect" /\ ~chk.vc.is_searching
                  THEN start_reacquisition_multi(chk.vc).vc
                  ELSE chk.vc
       IN  /\ StoreInPlace(om1)
           /\ command_queue' = IF command_queue = <<>> THEN <<>>
                               ELSE Tail(command_queue)
           /\ is_searching' = vc1.is_searching
           /\ search_result' = vc1.search_result
           /\ workers' = vc1.workers
           /\ last' = [op |-> "vision_detect", arg |-> command,
                       ret |-> vc1.workers - workers,
                       pre |-> [queue |-> command_queue,
                                is_searching |-> is_searching,
                                workers |-> workers]]
    /\ v_pc' = "track"
    /\ UNCHANGED <<now, audio, extVars, current_mode, tracking_status, latest_frame, is_running,
                   ui_pc, voice, hist>>

\* vision_worker lines 344-373: trackers, snapshot, local recovery
VisionTrack(results, matches) ==
    /\ v_pc = "track"
    /\ LET tracked == IF lists[om_objects] # <<>>
                      THEN update_trackers(OM, results, now) ELSE OM
           a == Alloc(lists, tracked.list)
           om2 == local_recovery(tracked, matches, now)
       IN  /\ SetHeap(om2.objs, a.lists, om_objects, a.ref, ui_objects)
           /\ tracking_status' = IF tracked.list # <<>> THEN "TRACKING" ELSE "READY"
           /\ hist' = [hist EXCEPT !.republished =
                           @ \cup (Range(tracked.list) \cap hist.destroyed)]
    /\ v_pc' = "evict"
    /\ last' = NoOp
    /\ UNCHANGED <<now, audio, extVars, next_id, current_mode, latest_frame, command_queue,
                   is_running, vcVars, ui_pc, voice>>

\* vision_worker lines 375-386: stale cleanup, lost-threat check
VisionEvict ==
    /\ v_pc = "evict"
    /\ LET c == cleanup_stale_trackers(OM, MaxAge, now)
           q1 == IF c.ret THEN add_command(command_queue, "detect")
                 ELSE command_queue
           th == check_lost_threats(c.om, now)
           q2 == IF th.ret THEN add_command(q1, "detect") ELSE q1
           evicted == Range(lists[om_objects]) \ Range(c.om.list)
           removed == Range(c.om.list) \ Range(th.om.list)
       IN  /\ Len(q2) <= MaxQueue
           /\ StoreRebound(th.om)
           /\ command_queue' = q2
           /\ hist' = Signalled(Destroyed(hist, evicted \cup removed), removed)
    /\ v_pc' = "detect"
    /\ last' = NoOp
    /\ UNCHANGED <<now, audio, extVars, current_mode, tracking_status, latest_frame, is_running,
                   vcVars, ui_pc, voice>>

\* UI loop lines 400-431: publish the frame, take the display state
UIRead ==
    /\ is_running /\ ui_pc = "read"
    /\ latest_frame' = TRUE
    /\ ui_objects' = tracked_objects
    /\ ui_pc' = "inject"
    /\ last' = NoOp
    /\ UNCHANGED <<now, audio, extVars, omVars, tracked_objects, tracking_status, command_queue,
                   is_running, vcVars, v_pc, voice, hist>>

\* UI loop lines 401-408 and 615-616: the loop ends, threads are told to stop
UIStop ==
    /\ ui_pc = "read"
    /\ is_running' = FALSE
    /\ ui_pc' = "done"
    /\ last' = NoOp
    /\ UNCHANGED <<now, audio, extVars, omVars, tracked_objects, tracking_status, latest_frame,
                   command_queue, vcVars, v_pc, ui_objects, voice, hist>>

\* UI loop line 436: object_manager.objects = objects
UIInject ==
    /\ ui_pc = "inject"
    /\ SetHeap(objs, lists, ui_objects, tracked_objects, NoRef)
    /\ ui_pc' = "key"
    /\ last' = NoOp
    /\ UNCHANGED <<now, audio, extVars, next_id, current_mode, tracking_status, latest_frame,
                   command_queue, is_running, vcVars, v_pc, voice, hist>>

\* UI loop lines 447-613: one key (or none) is handled
UIKey(key) ==
    /\ ui_pc = "key"
    /\ LET sm == IF key = "m" THEN set_mode(current_mode, NextModeOf(current_mode))
                 ELSE IF key = "n" THEN set_mode(current_mode, "exploration")
                 ELSE [mode |-> current_mode, cleared |-> FALSE, ret |-> TRUE]
           clears == sm.cleared \/ key \in {"c", "n", "r"}
           om1 == IF clears THEN clear(OM) ELSE OM
           cleared == [lists EXCEPT ![om_objects] = om1.list]
           a == Alloc(cleared, <<>>)
           adds == key \in {"f", "m", "n", "r"}
           spawns == key = "s" /\ voice.is_recording
       IN  /\ adds => Len(command_queue) < MaxQueue
           /\ spawns => voice.threads < MaxVoiceThreads
           /\ IF key = "c"
              THEN SetHeap(om1.objs, a.lists, om_objects, a.ref, ui_objects)
              ELSE SetHeap(om1.objs, cleared, om_objects, tracked_objects, ui_objects)
           /\ tracking_status' = IF key = "c" THEN "READY" ELSE tracking_status
           /\ current_mode' = sm.mode
           /\ command_queue' = IF adds THEN add_command(command_queue, "detect")
                               ELSE command_queue
           /\ voice' = IF key = "c" THEN [voice EXCEPT !.is_recording = TRUE]
                       ELSE IF spawns THEN [voice EXCEPT !.threads = @ + 1]
                       ELSE IF key = "n" THEN [voice EXCEPT !.is_recording = FALSE]
                       ELSE voice
           /\ hist' = IF clears THEN Destroyed(hist, Range(lists[om_objects]))
                      ELSE hist
    /\ is_running' = (is_running /\ key # "q")
    /\ ui_pc' = IF key = "q" THEN "done" ELSE "read"
    /\ last' = NoOp
    /\ UNCHANGED <<now, audio, extVars, next_id, latest_frame, vcVars, v_pc>>

\* process_voice_thread lines 490-578: stop_recording, then an intent of
\* parse_command (visual_qa, chat_with_nova, direct_response), none of
\* which touches the tracking state
VoiceThread ==
    /\ voice.threads > 0
    /\ voice' = [is_recording |-> FALSE, threads |-> voice.threads - 1]
    /\ last' = NoOp
    /\ UNCHANGED <<now, audio, extVars, omVars, ssVars, vcVars, v_pc, ui_pc, ui_objects, hist>>

\* _async_reacquire_multi_worker lines 352-371: the result is stored
WorkerDone(detections) ==
    /\ workers > 0
    /\ next_id + Len(detections) <= MaxId
    /\ search_result' = Some(detections)
    /\ is_searching' = FALSE
    /\ workers' = workers - 1
    /\ last' = NoOp
    /\ UNCHANGED <<now, audio, extVars, omVars, ssVars, v_pc, ui_pc, ui_objects, voice, hist>>

NextSys ==
    \/ Tick(3, MaxTimeSys)
    \/ VisionDetect
    \/ \E results \in [DOMAIN objs -> TrackSys], matches \in [DOMAIN objs -> MatchesSys] :
           VisionTrack(results, matches)
    \/ VisionEvict
    \/ UIRead
    \/ UIStop
    \/ UIInject
    \/ \E key \in Keys : UIKey(key)
    \/ VoiceThread
    \/ \E detections \in BatchesSys : WorkerDone(detections)

SpecSys == Init /\ [][NextSys]_vars

----------------------------------------------------------------------------
(* Properties of the interleaved threads                                   *)

\* a vision tick is under way
InTick == v_pc \in {"track", "evict"}

\* C5: a main threat lost for more than 2 s is signalled for re-scan
\* exactly once and removed at once, so it is in the collection at no
\* later vision tick.
C5_Original ==
    \A i \in DOMAIN hist.signals :
        /\ hist.signals[i] <= 1
        /\ ~(InTick /\ i \in Range(lists[om_objects]))

VD == last.op = "vision_detect"

\* C7: at most one detection worker is in flight; start_reacquisition_multi
\* called while is_searching returns False, starts no worker and changes
\* nothing; a 'detect' command taken from the queue while a detection is
\* pending is dropped and not queued again.
C7_OneDetection ==
    /\ workers <= 1
    /\ workers = 1 => is_searching
    /\ is_searching =>
           LET r == start_reacquisition_multi(VC)
           IN  r.ret = FALSE /\ r.vc = VC
    /\ (VD /\ last.arg = "detect" /\ last.pre.is_searching) =>
           /\ command_queue = Tail(last.pre.queue)
           /\ workers = last.pre.workers
           /\ is_searching /\ search_result = None

\* a 'detect' command was taken while the worker was in flight, and dropped
C7_Witness ==
    /\ VD /\ last.arg = "detect" /\ last.pre.is_searching
    /\ workers = 1 /\ last.ret = 0
    /\ command_queue = <<>> /\ Len(last.pre.queue) = 1

\* C10: an object destroyed by staleness eviction, lost-threat removal,
\* clear or a mode change is in the ObjectManager collection at no later
\* time and in no snapshot published later.
C10_Original ==
    /\ hist.destroyed \cap Range(lists[om_objects]) = {}
    /\ hist.republished = {}

\* a step that calls update_tracking: the vision tick's step 4, the C key
Publishes ==
    \/ \E results \in [DOMAIN objs -> TrackSys], matches \in [DOMAIN objs -> MatchesSys] :
           VisionTrack(results, matches)
    \/ UIKey("c")

\* C11: the published snapshot is a copy of the live list: between two
\* update_tracking calls no add, remove or clear on the ObjectManager
\* collection changes the snapshot's membership.
C11_Original ==
    [][~Publishes => lists'[tracked_objects'] = lists[tracked_objects]]_vars

----------------------------------------------------------------------------
(* The tracker life cycle: detections (with and without a tracker being    *)
(* created for the new objects), tracker ticks with every outcome, local   *)
(* recovery.                                                               *)

MaxTimeTrack == 2

\* the tracker follows the object, loses it, or raises
TrackTrack ==
    [kind : {"ok"}, bbox : {<<160, 120, 320, 240>>}]
        \cup [kind : {"fail", "raise"}, bbox : {NoBox}]

BatchesTrack ==
    {<<[box_2d |-> BoxA, label |-> Cup]>>,
     <<[box_2d |-> BoxC, label |-> Cup]>>}

\* where template matching finds the patch, if it does
MatchesTrack == {NoBox, <<16, 8>>}

\* init_tracker leaves obj.tracker None when no tracker class exists or its
\* constructor raises (object_manager.py lines 238-256): the detection step
\* then amounts to process_detections alone
NextTrack ==
    \/ Tick(1, MaxTimeTrack)
    \/ \E batch \in BatchesTrack : CallVisionResult(batch, MaxId)
    \/ CallProcessDetections(<<[box_2d |-> BoxC, label |-> Person]>>, MaxId, FALSE)
    \/ \E results \in [DOMAIN objs -> TrackTrack] : CallUpdateTrackers(results, TRUE)
    \/ \E matches \in [DOMAIN objs -> MatchesTrack] : CallLocalRecovery(matches, FALSE)

SpecTrack == Init /\ [][NextTrack]_vars

\* the step is an update_trackers tick
UTStep == last'.op = "update_trackers"

\* what the tracker of object i does in that tick
Outcome(i) == IF objs[i].tracker = NoBox THEN "none" ELSE last'.arg[i].kind

\* C12: after an update_trackers tick an object is lost exactly when it had
\* no tracker or its tracker update failed or raised; an object whose update
\* succeeded is not lost.
C12_Original ==
    [][UTStep => \A i \in Range(lists[om_objects]) :
                     objs'[i].is_lost <=> Outcome(i) \in {"none", "fail", "raise"}]_vars

\* C13: lost_time is recorded once per loss episode: the tick that marks an
\* object lost stamps it with the time of that tick, and every later tick
\* the object stays lost through leaves lost_time as it was.
C13_LostTimeOnce ==
    [][UTStep => \A i \in Range(lists[om_objects]) :
                     objs'[i].is_lost =>
                         IF objs[i].is_lost
                         THEN objs'[i].lost_time = objs[i].lost_time
                         ELSE objs'[i].lost_time = now]_vars

\* an object still lost after a tick later than the one that lost it
C13_Witness ==
    /\ last.op = "update_trackers"
    /\ \E i \in Range(lists[om_objects]) :
           /\ objs[i].is_lost
           /\ objs[i].tracker # NoBox
           /\ last.arg[i].kind = "fail"
           /\ objs[i].lost_time # NoTime
           /\ objs[i].lost_time < now

\* the ways an object i that is lost before a step can be Active after it
RecoveredLocally(i) ==
    /\ last'.op = "local_recovery"
    /\ objs[i].template # NoBox
    /\ last'.arg[i] # NoBox

MatchedByDetection(i) ==
    /\ last'.op \in {"vision_result", "process_detections"}
    /\ \E k \in 1..Len(last'.arg) :
           LET new_bbox == PixelBox(last'.arg[k].box_2d)
           IN  /\ new_bbox # NoBox
               /\ ParseLabel(last'.arg[k].label).label = objs[i].label
               /\ IoUGreater(compute_iou(objs[i].bbox, new_bbox), 1)

TrackedAgain(i) ==
    /\ last'.op = "update_trackers"
    /\ objs[i].tracker # NoBox
    /\ last'.arg[i].kind = "ok"

BecomesActive(i) ==
    /\ i \in Range(lists[om_objects])
    /\ objs[i].is_lost
    /\ i \in DOMAIN objs'
    /\ ~objs'[i].is_lost

\* C14: a lost object returns to Active only through a successful local
\* recovery or a detection of the same label overlapping it by IoU > 0.1;
\* no other operation, a later tracker update included, clears is_lost.
C14_Original ==
    [][\A i \in DOMAIN objs :
           BecomesActive(i) => RecoveredLocally(i) \/ MatchedByDetection(i)]_vars

\* C14 as the code has it: a tracker update that succeeds clears is_lost too.
C14_Amended ==
    [][\A i \in DOMAIN objs :
           BecomesActive(i) =>
               RecoveredLocally(i) \/ MatchedByDetection(i) \/ TrackedAgain(i)]_vars

\* a lost object made Active by the tracker tick alone
C14_Witness ==
    /\ last.op = "update_trackers"
    /\ \E i \in Range(last.pre.list) :
           /\ last.pre.objs[i].is_lost
           /\ last.arg[i].kind = "ok"
           /\ ~objs[i].is_lost
           /\ objs[i].lost_time = NoTime

\* object i is created by the step
Created(i) == i \notin Range(lists[om_objects]) /\ i \in Range(lists'[om_objects])

\* object i is lost before the step and Active after it, by local recovery
\* or by a detection
Recovered(i) ==
    /\ BecomesActive(i)
    /\ last'.op \in {"local_recovery", "vision_result"}

\* C15: the tracker is initialised with the object's new bbox when the
\* object is created and when it is recovered, by local recovery or by a
\* detection match while lost, before the next update_trackers tick; in
\* every other case an existing tracker is preserved.
C15_Original ==
    [][last'.op \in {"vision_result", "local_recovery", "update_trackers", "tick"} =>
           \A i \in Range(lists'[om_objects]) :
               IF Created(i) \/ Recovered(i)
               THEN objs'[i].tracker = objs'[i].bbox
               ELSE objs[i].tracker # NoBox => objs'[i].tracker = objs[i].tracker]_vars

\* C16: update_trackers neither adds nor removes objects: the list holds the
\* same ids in the same order after the tick as before it, and no id has
\* been assigned, whatever the trackers did.
C16_SameObjects ==
    last.op = "update_trackers" =>
        /\ lists[om_objects] = last.pre.list
        /\ next_id = last.pre.next_id
        /\ \A i \in Range(last.pre.list) : objs[i].label = last.pre.objs[i].label

\* a tick over two objects, one without a tracker, one whose tracker did
\* not succeed
C16_Witness ==
    /\ last.op = "update_trackers"
    /\ \E i, j \in Range(last.pre.list) :
           /\ last.pre.objs[i].tracker = NoBox
           /\ last.pre.objs[j].tracker # NoBox
           /\ last.arg[j].kind \in {"fail", "raise"}

----------------------------------------------------------------------------
(* Object ids: objects are created by detections and leave the collection  *)
(* by clear(), by a mode switch, by the lost-threat removal and by the     *)
(* stale-tracker eviction.                                                 *)

MaxTimeIds == 31

NextIds ==
    \/ Tick(15, MaxTimeIds)
    \/ \E batch \in BatchesThreat : CallVisionResult(batch, MaxId)
    \/ \E results \in [DOMAIN objs -> TrackSys] : CallUpdateTrackers(results, FALSE)
    \/ CallClear(FALSE)
    \/ \E mode \in {"navigation", "exploration"} : CallSetMode(mode, FALSE)
    \/ CallCheckLostThreats(FALSE)
    \/ CallCleanup(FALSE)

SpecIds == Init /\ [][NextIds]_vars

\* no id twice in the list, and every live id below next_id
IdsUnique ==
    /\ \A p, q \in 1..Len(lists[om_objects]) :
           p # q => lists[om_objects][p] # lists[om_objects][q]
    /\ \A i \in Range(lists[om_objects]) : i < next_id

\* next_id never goes back; an object that comes into being takes the id
\* next_id had, which no earlier object was given; the objects that stay
\* keep their ids and places when a detection batch is merged
IdsMonotonic ==
    /\ next_id' >= next_id
    /\ \A i \in Range(lists'[om_objects]) \ Range(lists[om_objects]) :
           i >= next_id /\ i < next_id'
    /\ last'.op = "vision_result" =>
           /\ Len(lists'[om_objects]) >= Len(lists[om_objects])
           /\ SubSeq(lists'[om_objects], 1, Len(lists[om_objects])) = lists[om_objects]
           /\ \A i \in Range(lists[om_objects]) : objs'[i].label = objs[i].label

\* C17: ids are unique and assigned in increasing order: no two live objects
\* share an id, a new object's id is greater than every id assigned before
\* it, an id is not used again after a clear, a removal, an eviction or a
\* mode switch, and merging a detection leaves the ids of the existing
\* objects alone.
C17_Ids == []IdsUnique /\ [][IdsMonotonic]_vars

\* an object created after the first one was cleared, removed or evicted
C17_Witness ==
    /\ last.op = "vision_result"
    /\ last.ret = 1
    /\ lists[om_objects] = <<1>>
    /\ next_id = 2

----------------------------------------------------------------------------
(* The per-mode limits                                                     *)

\* C18: the number of tracked objects never exceeds the active mode's
\* max_objects (1 in navigation, 5 otherwise), and in a mode with a label
\* allow-list only objects with listed labels are tracked.
C18_Original ==
    /\ Len(lists[om_objects]) <= get_max_objects(current_mode)
    /\ should_filter_objects(current_mode) =>
           \A i \in Range(lists[om_objects]) :
               objs[i].label \in get_object_filter(current_mode)

----------------------------------------------------------------------------
(* HRTF_AudioController._update_scene (audio_hrtf.py).  A gain g is kept   *)
(* as its square: the code takes a square root of max_area / (area + 1),   *)
(* and g * g is a rational.  BaseGainSq is a numerator over AudioMaxArea,  *)
(* FinalGainSq one over 100 * AudioMaxArea.                                *)

AudioW == 1280
AudioH == 720

\* max_area = width * height * 0.5
AudioMaxArea == (AudioW * AudioH) \div 2

\* the gain with neither the distance range nor the 0.1 floor
BaseGainSq_Unclamped(bbox) == Min(AudioMaxArea, 4 * (bbox[3] * bbox[4] + 1))

\* dist = max(0.5, min(10.0, sqrt(max_area / (area + 1))));
\* gain = max(0.1, min(1.0, ref_dist / (dist * 0.5))), squared
BaseGainSq(bbox) ==
    LET area == bbox[3] * bbox[4]
        \* 4 / dist^2, dist^2 between 1/4 and 100
        inv == Min(16 * AudioMaxArea, Max(AudioMaxArea \div 25, 4 * (area + 1)))
    IN  Max(AudioMaxArea \div 100, Min(AudioMaxArea, inv))

\* the loop of lines 338-341 over all the objects passed in
RECURSIVE MaxThreat(_, _)
MaxThreat(O, objects) ==
    IF objects = <<>> THEN 0
    ELSE Max(MaxThreat(O, Tail(objects)), O[Head(objects)].threat_score)

\* the ducking test with the boundary ducked too
IsDucked_Inclusive(score, max_threat) ==
    LET d == score - 4 * (max_threat \div 5)
    IN  d < 0 \/ (d < 4 /\ 5 * d <= 4 * (max_threat % 5))

\* obj.threat_score < max_threat * 0.8, that is 5 * score < 4 * max_threat,
\* with the products kept small: max_threat = 5q + r
IsDucked(score, max_threat) ==
    LET d == score - 4 * (max_threat \div 5)
    IN  d < 0 \/ (d < 4 /\ 5 * d < 4 * (max_threat % 5))

\* final_gain = base_gain, times 0.3 when ducked; squared
FinalGainSq(base_sq, ducked) == IF ducked THEN 9 * base_sq ELSE 100 * base_sq

\* alGenSources: a source name not in use
NewSource(live) ==
    CHOOSE h \in 0..Cardinality(live) :
        h \notin live /\ \A k \in 0..(h - 1) : k \in live

\* "if obj_id not in self.sources" left out: a source generated on every tick
NeedsSource_Always(a, obj_id) == TRUE

\* line 307: create the source if the id has none
NeedsSource(a, obj_id) == obj_id \notin DOMAIN a.sources

\* lines 245-354: one iteration of the loop over objects
SceneOne(a, O, obj_id, max_threat) ==
    IF O[obj_id].bbox = NoBox THEN a
    ELSE LET create == NeedsSource(a, obj_id)
             source == IF create THEN NewSource(a.live) ELSE a.sources[obj_id]
             final_gain == FinalGainSq(BaseGainSq(O[obj_id].bbox),
                                       IsDucked(O[obj_id].threat_score, max_threat))
         IN  [sources |-> (obj_id :> source) @@ a.sources,
              gains |-> (source :> final_gain) @@ a.gains,
              live |-> a.live \cup {source}]

RECURSIVE SceneLoop(_, _, _, _)
SceneLoop(a, O, objects, max_threat) ==
    IF objects = <<>> THEN a
    ELSE SceneLoop(SceneOne(a, O, Head(objects), max_threat), O, Tail(objects),
                   max_threat)

\* lines 356-369: the sources whose id is not in current_ids are stopped
\* and deleted
RemoveStale(a, current_ids) ==
    LET stale == {a.sources[i] : i \in DOMAIN a.sources \ current_ids}
    IN  [sources |-> [i \in DOMAIN a.sources \cap current_ids |-> a.sources[i]],
         gains |-> [h \in DOMAIN a.gains \ stale |-> a.gains[h]],
         live |-> a.live \ stale]

\* _update_scene(objects): objects is a list of ids into the object heap O
update_scene(a, O, objects) ==
    LET current_ids == {i \in Range(objects) : O[i].bbox # NoBox}
    IN  RemoveStale(SceneLoop(a, O, objects, MaxThreat(O, objects)), current_ids)

\* _update_loop lines 223-226: one tick of the audio thread on the snapshot
AudioTick ==
    /\ audio' = update_scene(audio, objs, lists[tracked_objects])
    /\ last' = [op |-> "update_scene", arg |-> lists[tracked_objects], ret |-> 0,
                pre |-> <<>>]
    /\ UNCHANGED <<now, omVars, ssVars, vcVars, thrVars, hist, extVars>>

\* vision_worker lines 344-353: the snapshot is published
CallUpdateTracking ==
    LET a == Alloc(lists, lists[om_objects])
    IN  /\ SetHeap(objs, a.lists, om_objects, a.ref, ui_objects)
        /\ tracking_status' = IF lists[om_objects] # <<>> THEN "TRACKING" ELSE "READY"
        /\ last' = [op |-> "update_tracking", arg |-> lists[om_objects], ret |-> 0,
                    pre |-> <<>>]
        /\ UNCHANGED <<now, next_id, current_mode, latest_frame, command_queue,
                       is_running, vcVars, v_pc, ui_pc, voice, hist, audio, extVars>>

\* the tracker follows the object to one of two places
TrackAudio == [kind : {"ok"}, bbox : TrackBoxes]

NextAudio ==
    \/ \E batch \in BatchesThreat : CallVisionResult(batch, MaxId)
    \/ \E results \in [DOMAIN objs -> TrackAudio] : CallUpdateTrackers(results, FALSE)
    \/ CallClear(FALSE)
    \/ CallUpdateTracking
    \/ AudioTick

SpecAudio == Init /\ [][NextAudio]_vars

\* the state is the one _update_scene has just returned in; the objects it
\* was given are last.arg
US == last.op = "update_scene"

\* every threat score is a multiple of FrameW (see ThreatScore)
Scaled(score) == score \div FrameW

\* the greatest threat score among the objects given, 0 if there is none
SceneMaxThreat ==
    LET scores == {objs[i].threat_score : i \in Range(last.arg)} \cup {0}
    IN  CHOOSE s \in scores : \A u \in scores : s >= u

\* the gain set on the source of object i, squared
GainOf(i) == audio.gains[audio.sources[i]]

\* C19: threat ducking: with max_threat the greatest threat score among the
\* snapshot objects, an object scoring less than 0.8 * max_threat plays at
\* 0.3 times its base gain, and every other object, the most threatening
\* one included, and every object when max_threat is 0, at its base gain.
C19_Ducking ==
    US => \A i \in Range(last.arg) :
              objs[i].bbox # NoBox =>
                  /\ i \in DOMAIN audio.sources
                  /\ IF 5 * Scaled(objs[i].threat_score) < 4 * Scaled(SceneMaxThreat)
                     THEN GainOf(i) = 9 * BaseGainSq(objs[i].bbox)
                     ELSE GainOf(i) = 100 * BaseGainSq(objs[i].bbox)

\* a scene with the main threat at its base gain and another object ducked
C19_Witness ==
    /\ US
    /\ \E i, j \in Range(last.arg) :
           /\ objs[i].threat_score = SceneMaxThreat
           /\ GainOf(i) = 100 * BaseGainSq(objs[i].bbox)
           /\ 5 * Scaled(objs[j].threat_score) < 4 * Scaled(SceneMaxThreat)
           /\ GainOf(j) = 9 * BaseGainSq(objs[j].bbox)

\* after a tick the ids that own a source are the ids of the objects given
\* that have a bbox, each id has a source of its own, and OpenAL holds no
\* other source
SourcesMatch ==
    /\ DOMAIN audio.sources = {i \in Range(last.arg) : objs[i].bbox # NoBox}
    /\ \A i, j \in DOMAIN audio.sources :
           i # j => audio.sources[i] # audio.sources[j]
    /\ audio.live = {audio.sources[i] : i \in DOMAIN audio.sources}
    /\ DOMAIN audio.gains = audio.live

\* in a tick an id that had a source keeps that source, an id that had none
\* gets one that did not exist, and the source of an id that is gone is
\* deleted
SourcesKept ==
    /\ \A i \in DOMAIN audio'.sources :
           IF i \in DOMAIN audio.sources
           THEN audio'.sources[i] = audio.sources[i]
           ELSE audio'.sources[i] \notin audio.live
    /\ \A i \in DOMAIN audio.sources \ DOMAIN audio'.sources :
           audio.sources[i] \notin audio'.live

\* C20: audio source life cycle: after every _update_scene(objects) the ids
\* owning a source are exactly the ids of the snapshot objects with a bbox;
\* a source is created in the first tick its id appears and is stopped and
\* deleted in the tick its id is absent; no source outlives its object and
\* none is created a second time.
C20_Lifecycle ==
    /\ [](US => SourcesMatch)
    /\ [][last'.op = "update_scene" => SourcesKept]_vars

\* a tick that leaves a source playing while the source created first has
\* been deleted
C20_Witness ==
    /\ US
    /\ audio.sources # <<>>
    /\ 0 \notin audio.live

----------------------------------------------------------------------------
(* MultiAudioController (audio_module_multi.py): the mixing callback.      *)
(* Samples and gains are numerators over MixUnit, a mixed sample is one    *)
(* over MixUnit * MixUnit, an output sample is a fraction <<n, d>>.        *)

MaxFrames == 2          \* frames per callback

\* the object ids that can own a source
SourceIds == {0, 1}

MixUnit == 10
MixOne == MixUnit * MixUnit

\* a signature as generate_waveform leaves it: divided by its maximum, so
\* the positive peak is 1.0 and the negative one can go below -1.0
Signature == <<0, 10, 0 - 12, 5>>

\* (left_gain, right_gain) = (cos(angle), sin(angle)) * volume for a pan
\* hard left, hard right and two in between, at volume 1.0 and 0.5, and
\* volume 0
PanGains == {<<10, 0>>, <<0, 10>>, <<6, 8>>, <<8, 6>>, <<3, 4>>, <<0, 0>>}

\* update_source: a new id starts at position 0; azimuth and volume are
\* kept as the gains the callback derives from them
update_source(mx, obj_id, gains) ==
    LET old == IF obj_id \in DOMAIN mx.sources THEN mx.sources[obj_id].position ELSE 0
    IN  [mx EXCEPT !.sources =
            (obj_id :> [left_gain |-> gains[1], right_gain |-> gains[2],
                        position |-> old]) @@ mx.sources]

remove_source(mx, obj_id) ==
    [mx EXCEPT !.sources = [i \in DOMAIN mx.sources \ {obj_id} |-> mx.sources[i]]]

\* samples[i] = signature[position % n_sig_samples], position += 1
SourceSample(src, k) == Signature[((src.position + k - 1) % Len(Signature)) + 1]

\* left_channel += samples * left_gain over all the sources
RECURSIVE MixSum(_, _, _, _)
MixSum(sources, ids, k, side) ==
    IF ids = {} THEN 0
    ELSE LET i == CHOOSE j \in ids : TRUE
             g == IF side = "left" THEN sources[i].left_gain ELSE sources[i].right_gain
         IN  SourceSample(sources[i], k) * g + MixSum(sources, ids \ {i}, k, side)

Mixed(sources, side) == [k \in 1..MaxFrames |-> MixSum(sources, DOMAIN sources, k, side)]

\* np.abs(channel).max()
Peak(channel) ==
    LET mags == {Abs(channel[k]) : k \in DOMAIN channel}
    IN  CHOOSE p \in mags : \A q \in mags : p >= q

\* each channel divided by its own peak
Normalize_PerChannel(left, right) ==
    LET dl == IF Peak(left) > MixOne THEN Peak(left) ELSE MixOne
        dr == IF Peak(right) > MixOne THEN Peak(right) ELSE MixOne
    IN  [left |-> [k \in DOMAIN left |-> <<left[k], dl>>],
         right |-> [k \in DOMAIN right |-> <<right[k], dr>>]]

\* lines 145-149: both channels divided by the common peak if it is above 1.0
Normalize(left, right) ==
    LET max_val == Max(Peak(left), Peak(right))
        d == IF max_val > MixOne THEN max_val ELSE MixOne
    IN  [left |-> [k \in DOMAIN left |-> <<left[k], d>>],
         right |-> [k \in DOMAIN right |-> <<right[k], d>>]]

\* _audio_callback: mix, normalise, write, advance the positions (kept
\* modulo the signature length, the only way the code reads them)
audio_callback(mx) ==
    [sources |-> [i \in DOMAIN mx.sources |->
                     [mx.sources[i] EXCEPT !.position =
                         (@ + MaxFrames) % Len(Signature)]],
     out |-> Normalize(Mixed(mx.sources, "left"), Mixed(mx.sources, "right"))]

mixIdle == <<now, omVars, ssVars, vcVars, thrVars, hist, audio, tts, callers, loops, hrtf,
            locks>>

CallUpdateSource(obj_id, gains) ==
    /\ mixer' = update_source(mixer, obj_id, gains)
    /\ last' = [op |-> "update_source", arg |-> <<obj_id, gains>>, ret |-> 0, pre |-> <<>>]
    /\ UNCHANGED mixIdle

CallRemoveSource(obj_id) ==
    /\ obj_id \in DOMAIN mixer.sources
    /\ mixer' = remove_source(mixer, obj_id)
    /\ last' = [op |-> "remove_source", arg |-> <<obj_id>>, ret |-> 0, pre |-> <<>>]
    /\ UNCHANGED mixIdle

\* last.arg keeps what was mixed before the normalisation
AudioCallback ==
    /\ mixer' = audio_callback(mixer)
    /\ last' = [op |-> "audio_callback",
                arg |-> [left |-> Mixed(mixer.sources, "left"),
                         right |-> Mixed(mixer.sources, "right")],
                ret |-> 0, pre |-> <<>>]
    /\ UNCHANGED mixIdle

NextMix ==
    \/ \E obj_id \in SourceIds, gains \in PanGains : CallUpdateSource(obj_id, gains)
    \/ \E obj_id \in SourceIds : CallRemoveSource(obj_id)
    \/ AudioCallback

SpecMix == Init /\ [][NextMix]_vars

\* the state is the one the mixing callback has just returned in
CB == last.op = "audio_callback"

\* |n / d| <= 1
AtMostOne(s) == Abs(s[1]) <= s[2]

\* the divisor the block was written with: the peak of both channels
\* together when that is above 1.0, else 1.0
CommonPeak ==
    LET p == Max(Peak(last.arg.left), Peak(last.arg.right))
    IN  IF p > MixOne THEN p ELSE MixOne

\* C21: the mix never clips: whatever sources are active, every sample the
\* callback writes has magnitude at most 1.0, and it gets there by dividing
\* both channels by their common peak when that exceeds 1.0: every written
\* sample is the mixed sample over that one divisor, none is clamped.
C21_NoClipping ==
    CB => \A k \in 1..MaxFrames :
              /\ AtMostOne(mixer.out.left[k])
              /\ AtMostOne(mixer.out.right[k])
              /\ mixer.out.left[k] = <<last.arg.left[k], CommonPeak>>
              /\ mixer.out.right[k] = <<last.arg.right[k], CommonPeak>>

\* two sources whose sum exceeds 1.0 on one channel and not on the other
C21_Witness ==
    /\ CB
    /\ Cardinality(DOMAIN mixer.sources) = 2
    /\ Peak(last.arg.left) > MixOne
    /\ Peak(last.arg.right) < Peak(last.arg.left)
    /\ Peak(last.arg.right) > 0

----------------------------------------------------------------------------
(* The distance gain of _update_scene as a function of the bbox            *)

\* bboxes of the 1280x720 reference frame, the three of
\* test_audio_attenuation.py among them
GainBoxes == {<<0, 0, w, h>> : w \in {1, 50, 200, 600, AudioW}, h \in {1, 50, 200, 600, AudioH}}

\* the gains of two bboxes, squared
CallGain(b1, b2) ==
    /\ last' = [op |-> "gain", arg |-> <<b1, b2>>,
                ret |-> <<BaseGainSq(b1), BaseGainSq(b2)>>, pre |-> <<>>]
    /\ UNCHANGED <<now, omVars, ssVars, vcVars, thrVars, hist, audio, extVars>>

NextGain == \E b1, b2 \in GainBoxes : CallGain(b1, b2)

SpecGain == Init /\ [][NextGain]_vars

Area(bbox) == bbox[3] * bbox[4]

\* C22: the distance gain is monotone in the bbox area and bounded: of two
\* bboxes the one with the larger area never gets the smaller gain, every
\* gain lies in [0.1, 1.0], and the gains of 600x600, 200x200 and 50x50 are
\* strictly decreasing, the first at least 0.8, the last at most 0.3.
C22_GainMonotone ==
    last.op = "gain" =>
        /\ Area(last.arg[1]) >= Area(last.arg[2]) => last.ret[1] >= last.ret[2]
        /\ \A k \in {1, 2} :
               100 * last.ret[k] >= AudioMaxArea /\ last.ret[k] <= AudioMaxArea
        /\ BaseGainSq(<<0, 0, 600, 600>>) > BaseGainSq(<<0, 0, 200, 200>>)
        /\ BaseGainSq(<<0, 0, 200, 200>>) > BaseGainSq(<<0, 0, 50, 50>>)
        /\ 100 * BaseGainSq(<<0, 0, 600, 600>>) >= 64 * AudioMaxArea
        /\ 100 * BaseGainSq(<<0, 0, 50, 50>>) <= 9 * AudioMaxArea

\* the gains of the test's close and far objects, apart
C22_Witness ==
    /\ last.op = "gain"
    /\ last.arg = <<<<0, 0, 600, 600>>, <<0, 0, 50, 50>>>>
    /\ last.ret[1] > last.ret[2]

----------------------------------------------------------------------------
(* compute_iou as a function of two boxes                                  *)

\* boxes (x, y, w, h) with sizes 0, 2 and 4 at offsets 0 and 2
IoUBoxes == {<<x, y, w, h>> : x \in {0, 2}, y \in {0, 2}, w \in {0, 2, 4}, h \in {0, 2, 4}}

\* compute_iou both ways round
CallComputeIoU(b1, b2) ==
    /\ last' = [op |-> "compute_iou", arg |-> <<b1, b2>>,
                ret |-> <<compute_iou(b1, b2), compute_iou(b2, b1)>>, pre |-> <<>>]
    /\ UNCHANGED <<now, omVars, ssVars, vcVars, thrVars, hist, audio, extVars>>

NextIoU == \E b1, b2 \in IoUBoxes : CallComputeIoU(b1, b2)

SpecIoU == Init /\ [][NextIoU]_vars

\* the boxes share no point of positive area
Disjoint(b1, b2) ==
    \/ b1[1] + b1[3] <= b2[1] \/ b2[1] + b2[3] <= b1[1]
    \/ b1[2] + b1[4] <= b2[2] \/ b2[2] + b2[4] <= b1[2]

\* the area of the union, counted cell by cell
UnionArea(b1, b2) ==
    Cardinality({c \in (0..6) \X (0..6) :
        \/ b1[1] <= c[1] /\ c[1] < b1[1] + b1[3] /\ b1[2] <= c[2] /\ c[2] < b1[2] + b1[4]
        \/ b2[1] <= c[1] /\ c[1] < b2[1] + b2[3] /\ b2[2] <= c[2] /\ c[2] < b2[2] + b2[4]})

\* C23: compute_iou of two boxes with non-negative sizes lies in [0, 1]; it
\* is 1.0 for two identical boxes of positive area, 0.0 for boxes that do
\* not overlap, 0 when the union has area 0, and the same in both argument
\* orders.
C23_IoU ==
    last.op = "compute_iou" =>
        LET b1 == last.arg[1]
            b2 == last.arg[2]
            iou == last.ret[1]
        IN  /\ iou[2] > 0 /\ 0 <= iou[1] /\ iou[1] <= iou[2]
            /\ (b1 = b2 /\ Area(b1) > 0) => iou[1] = iou[2]
            /\ Disjoint(b1, b2) => iou[1] = 0
            /\ UnionArea(b1, b2) = 0 => iou[1] = 0
            /\ last.ret[2] = iou

\* two different boxes that overlap in part
C23_Witness ==
    /\ last.op = "compute_iou"
    /\ last.arg[1] # last.arg[2]
    /\ last.ret[1][1] > 0
    /\ last.ret[1][1] < last.ret[1][2]

----------------------------------------------------------------------------
(* The threat calculation of update_trackers (object_manager.py lines      *)
(* 192-209) as a function of label, bbox and frame size.  A score is a     *)
(* numerator over 10 * frame_area.                                         *)

\* str.lower() on the letters used here
LowerChar(c) ==
    CASE c = "B" -> "b" [] c = "T" -> "t" [] c = "S" -> "s" [] c = "P" -> "p"
      [] OTHER -> c

Lower(s) == [k \in DOMAIN s |-> LowerChar(s[k])]

\* label.split(" ")[-1]: what follows the last space
RECURSIVE LastWord(_)
LastWord(s) ==
    IF \A k \in DOMAIN s : s[k] # " " THEN s
    ELSE LastWord(Tail(s))

\* config.THREAT_PRIORITIES.get(label_key, THREAT_PRIORITIES["default"]),
\* in hundredths
THREAT_PRIORITIES(label_key) ==
    CASE label_key = <<"p", "e", "r", "s", "o", "n">> -> 100
      [] label_key = <<"t", "r", "e", "e">> -> 80
      [] label_key = <<"c", "u", "p">> -> 10
      [] label_key = <<"p", "e", "n">> -> 5
      [] OTHER -> 30

\* size_score = min(1.0, area / (frame_area * 0.5)), over frame_area
SizeScore(bbox, fw, fh) == Min(fw * fh, 2 * (bbox[3] * bbox[4]))

\* centrality_score = 1.0 - min(1.0, |center_x - fw/2| / (fw/2)), over fw
CentralityScore(bbox, fw) == fw - Min(fw, Abs(2 * bbox[1] + bbox[3] - fw))

\* the blend of test_threat_logic.py: 0.4 size + 0.4 semantic +
\* 0.1 centrality + 0.1 trajectory, the trajectory term 0.5 for an object
\* at rest
threat_score_Blended(label, bbox, fw, fh) ==
    LET semantic_score == THREAT_PRIORITIES(LastWord(Lower(label)))
    IN  4 * SizeScore(bbox, fw, fh) + 4 * semantic_score * ((fw * fh) \div 100)
            + fh * CentralityScore(bbox, fw) + (fw * fh) \div 2

\* lines 192-207: semantic_score is looked up and not used
threat_score(label, bbox, fw, fh) ==
    LET semantic_score == THREAT_PRIORITIES(LastWord(Lower(label)))
    IN  7 * SizeScore(bbox, fw, fh) + 3 * fh * CentralityScore(bbox, fw)

BigTree == <<"B", "i", "g", " ", "T", "r", "e", "e">>
SmallStone == <<"S", "m", "a", "l", "l", " ", "S", "t", "o", "n", "e">>
PersonLabel == <<"P", "e", "r", "s", "o", "n">>

\* the two objects of test_semantic_priority
StoneBox == <<500, 500, 200, 200>>
TreeBox == <<600, 300, 100, 100>>

ThreatLabels == {BigTree, SmallStone, PersonLabel}
ThreatBoxes ==
    {StoneBox, TreeBox, <<0, 0, 320, 240>>, <<160, 120, 320, 240>>,
     <<0, 0, 1280, 720>>, <<1300, 0, 10, 10>>}
ThreatFrames == {<<FrameW, FrameH>>, <<AudioW, AudioH>>}

\* the scores of two objects in one frame
CallThreatScore(l1, b1, l2, b2, frame) ==
    /\ last' = [op |-> "threat_score",
                arg |-> [l1 |-> l1, b1 |-> b1, l2 |-> l2, b2 |-> b2, frame |-> frame],
                ret |-> <<threat_score(l1, b1, frame[1], frame[2]),
                          threat_score(l2, b2, frame[1], frame[2])>>,
                pre |-> <<>>]
    /\ UNCHANGED <<now, omVars, ssVars, vcVars, thrVars, hist, audio, extVars>>

NextScore ==
    \E l1, l2 \in ThreatLabels, b1, b2 \in ThreatBoxes, frame \in ThreatFrames :
        CallThreatScore(l1, b1, l2, b2, frame)

SpecScore == Init /\ [][NextScore]_vars

TS == last.op = "threat_score"

TreeAndStone ==
    /\ TS
    /\ last.arg.l1 = BigTree /\ last.arg.b1 = TreeBox
    /\ last.arg.l2 = SmallStone /\ last.arg.b2 = StoneBox
    /\ last.arg.frame = <<AudioW, AudioH>>

----------------------------------------------------------------------------
(* The life of a threat score: detections that create objects and replace  *)
(* the bbox of known ones, tracker ticks with every outcome, local         *)
(* recovery and the cleanup of stale objects.                              *)

MaxTimeLife == 30

NextLife ==
    \/ Tick(15, MaxTimeLife)
    \/ \E batch \in BatchesTrack : CallVisionResult(batch, MaxId)
    \/ CallProcessDetections(<<[box_2d |-> BoxC, label |-> Person]>>, MaxId, FALSE)
    \/ \E results \in [DOMAIN objs -> TrackTrack] : CallUpdateTrackers(results, TRUE)
    \/ \E matches \in [DOMAIN objs -> MatchesTrack] : CallLocalRecovery(matches, FALSE)
    \/ CallCleanup(FALSE)

SpecLife == Init /\ [][NextLife]_vars

\* the tracker of object i is updated with success in this step
TrackedOk(i) ==
    /\ UTStep
    /\ i \in Range(lists[om_objects])
    /\ Outcome(i) = "ok"

\* C26: threat_score is recomputed only by a successful tracker update: a
\* failed, raised or skipped update, process_detections (bbox replacement
\* included), local recovery and the cleanup leave the score of every object
\* as it was, so a lost object keeps the score of its last successful tick;
\* a new object has 0.0 until its first successful update.
C26_ScoreOnlyFromTracker ==
    [][\A i \in DOMAIN objs' :
           IF i \in DOMAIN objs
           THEN IF TrackedOk(i)
                THEN objs'[i].threat_score = ThreatScore(last'.arg[i].bbox)
                ELSE objs'[i].threat_score = objs[i].threat_score
           ELSE objs'[i].threat_score = 0]_vars

\* an object that was scored, then lost by its tracker, with the score kept
C26_Witness ==
    /\ last.op = "update_trackers"
    /\ \E i \in Range(lists[om_objects]) :
           /\ objs[i].tracker # NoBox
           /\ last.arg[i].kind = "fail"
           /\ objs[i].is_lost
           /\ objs[i].threat_score > 0

----------------------------------------------------------------------------
(* The command queue under concurrent callers (shared_state.py lines       *)
(* 60-70).  A call waits for _lock, runs its body statement by statement   *)
(* and releases the lock on leaving the with block.  Commands are numbered *)
(* in the order the calls were made, to tell them apart; callers.added is  *)
(* the order of the add_command critical sections and callers.got the      *)
(* commands get_next_command returned.                                     *)

MaxCommands == 4

\* the body of get_next_command with the newest command taken
get_next_command_Lifo(queue) ==
    IF queue # <<>>
    THEN [queue |-> SubSeq(queue, 1, Len(queue) - 1), ret |-> queue[Len(queue)]]
    ELSE [queue |-> queue, ret |-> 0]

\* lines 68-70: pop(0), or None (0) when the queue is empty
get_next_command(queue) ==
    IF queue # <<>>
    THEN [queue |-> Tail(queue), ret |-> Head(queue)]
    ELSE [queue |-> queue, ret |-> 0]

queueIdle == <<now, omVars, tracked_objects, tracking_status, latest_frame, is_running,
               vcVars, thrVars, hist, audio, mixer, tts, loops, hrtf, locks>>

\* the number of add_command calls made so far
Issued == Cardinality({t \in QThreads : callers.op[t] = "add_command"
                                          /\ callers.pc[t] \in {"wait", "in"}})
              + Len(callers.added)

\* a thread calls add_command(command)
BeginAdd(t) ==
    /\ callers.pc[t] = "idle"
    /\ Issued < MaxCommands
    /\ callers' = [callers EXCEPT !.pc[t] = "wait", !.op[t] = "add_command",
                                  !.arg[t] = Issued + 1]
    /\ UNCHANGED <<command_queue, last, queueIdle>>

\* the vision thread calls get_next_command() (main_enhanced.py line 321)
BeginGet(t) ==
    /\ t = "vision"
    /\ callers.pc[t] = "idle"
    /\ callers' = [callers EXCEPT !.pc[t] = "wait", !.op[t] = "get_next_command",
                                  !.arg[t] = 0]
    /\ UNCHANGED <<command_queue, last, queueIdle>>

\* with self._lock: entered when the lock is free
Acquire(t) ==
    /\ callers.pc[t] = "wait"
    /\ callers.lock = "free"
    /\ callers' = [callers EXCEPT !.lock = t, !.pc[t] = "in"]
    /\ UNCHANGED <<command_queue, last, queueIdle>>

\* line 63, then the lock is released
AddBody(t) ==
    /\ callers.pc[t] = "in" /\ callers.op[t] = "add_command"
    /\ command_queue' = add_command(command_queue, callers.arg[t])
    /\ callers' = [callers EXCEPT !.lock = "free", !.pc[t] = "idle",
                                  !.added = Append(@, callers.arg[t])]
    /\ last' = [op |-> "add_command", arg |-> callers.arg[t], ret |-> 0,
                pre |-> [queue |-> command_queue]]
    /\ UNCHANGED queueIdle

\* lines 68-70, then the lock is released
GetBody(t) ==
    /\ callers.pc[t] = "in" /\ callers.op[t] = "get_next_command"
    /\ LET r == get_next_command(command_queue)
       IN  /\ command_queue' = r.queue
           /\ callers' = [callers EXCEPT !.lock = "free", !.pc[t] = "idle",
                              !.got = IF r.ret = 0 THEN @ ELSE Append(@, r.ret)]
           /\ last' = [op |-> "get_next_command", arg |-> 0, ret |-> r.ret,
                       pre |-> [queue |-> command_queue]]
    /\ UNCHANGED queueIdle

NextQueue ==
    \E t \in QThreads :
        \/ BeginAdd(t)
        \/ BeginGet(t)
        \/ Acquire(t)
        \/ AddBody(t)
        \/ GetBody(t)

SpecQueue == Init /\ [][NextQueue]_vars

\* C27: the command queue is FIFO and delivers each command exactly once
\* under any interleaving of add_command and get_next_command: the commands
\* returned so far followed by the commands still queued are the commands
\* added, in the order of the add_command critical sections (none twice,
\* none lost); get_next_command returns None exactly when the queue is
\* empty.
C27_Fifo ==
    /\ callers.got \o command_queue = callers.added
    /\ \A j, k \in 1..Len(callers.added) :
           j # k => callers.added[j] # callers.added[k]
    /\ last.op = "get_next_command" =>
           /\ (last.ret = 0) <=> (last.pre.queue = <<>>)
           /\ last.ret # 0 => last.ret = Head(last.pre.queue)

\* two commands were delivered, the second one added while the first was
\* still queued and issued before it
C27_Witness ==
    /\ last.op = "get_next_command"
    /\ Len(callers.got) = 2
    /\ callers.got[1] > callers.got[2]
    /\ command_queue # <<>>

----------------------------------------------------------------------------
(* Shutdown (main_enhanced.py lines 280-625, audio_hrtf.py lines 138-233). *)
(* Three loops: vision_worker (while shared_state.is_running), the UI loop *)
(* of main() with its finally block, and HRTF_AudioController._update_loop *)
(* (while self.running), one pc per update thread started.  Two kinds of   *)
(* daemon worker: the detection worker and process_voice_thread.  A step   *)
(* of a worker or of the audio loop records in loops.did what it touched   *)
(* of the shared state and the object manager, and whether is_running was  *)
(* already false.                                                          *)

Did(who, touched) == [who |-> who, touched |-> touched, stopped |-> ~is_running]

sdIdle == <<now, next_id, v_pc, ui_pc, voice, hist, audio, mixer, tts, callers, hrtf,
           locks>>
sdHeap == <<objs, lists, om_objects, tracked_objects, ui_objects>>

\* vision_worker line 283: the loop test
SdVisionTop ==
    /\ loops.vision = "top"
    /\ loops' = [loops EXCEPT !.vision = IF is_running THEN "body" ELSE "stopped"]
    /\ last' = NoOp
    /\ UNCHANGED <<sdIdle, sdHeap, current_mode, ssVars, vcVars>>

\* vision_worker lines 285-390: one iteration; a "detect" command starts a
\* detection worker unless one is searching
SdVisionBody ==
    /\ loops.vision = "body"
    /\ LET chk == check_reacquisition_result(VC)
           command == IF command_queue = <<>> THEN "None" ELSE Head(command_queue)
           vc1 == IF latest_frame /\ command = "detect" /\ ~chk.vc.is_searching
                  THEN start_reacquisition_multi(chk.vc).vc
                  ELSE IF latest_frame THEN chk.vc ELSE VC
       IN  /\ command_queue' = IF latest_frame /\ command_queue # <<>>
                               THEN Tail(command_queue) ELSE command_queue
           /\ is_searching' = vc1.is_searching
           /\ search_result' = vc1.search_result
           /\ workers' = vc1.workers
    /\ loops' = [loops EXCEPT !.vision = "top"]
    /\ last' = NoOp
    /\ UNCHANGED <<sdIdle, sdHeap, current_mode, tracked_objects, tracking_status,
                   latest_frame, is_running>>

\* _async_reacquire_multi_worker (vision_module.py lines 352-371): the
\* result goes to the VisionController, under search_lock
SdWorkerDone ==
    /\ workers > 0
    /\ search_result' = Some(<<>>)
    /\ is_searching' = FALSE
    /\ workers' = workers - 1
    /\ loops' = [loops EXCEPT !.did = Did("detection_worker", {})]
    /\ last' = NoOp
    /\ UNCHANGED <<sdIdle, sdHeap, current_mode, ssVars>>

\* UI loop lines 400-426: the flag is tested, a frame is read (ret) and
\* published
SdUITop(ret) ==
    /\ loops.ui = "top"
    /\ loops' = [loops EXCEPT !.ui = IF is_running /\ ret THEN "key" ELSE "finally"]
    /\ latest_frame' = (latest_frame \/ (is_running /\ ret))
    /\ last' = NoOp
    /\ UNCHANGED <<sdIdle, sdHeap, current_mode, tracked_objects, tracking_status,
                   command_queue, is_running, vcVars>>

SdKeys == {"none", "q", "f", "s"}

\* UI loop lines 447-613: q breaks, f queues a detection, s hands the
\* recording to a process_voice_thread
SdUIKey(key) ==
    /\ loops.ui = "key"
    /\ key = "f" => Len(command_queue) < MaxQueue
    /\ key = "s" => loops.voicew \in {"none", "done"}
    /\ command_queue' = IF key = "f" THEN add_command(command_queue, "detect")
                        ELSE command_queue
    /\ loops' = [loops EXCEPT !.ui = IF key = "q" THEN "finally" ELSE "top",
                              !.voicew = IF key = "s" THEN "transcribe" ELSE @]
    /\ last' = NoOp
    /\ UNCHANGED <<sdIdle, sdHeap, current_mode, tracked_objects, tracking_status,
                   latest_frame, is_running, vcVars>>

\* lines 618-619: KeyboardInterrupt anywhere in the loop
SdInterrupt ==
    /\ loops.ui \in {"top", "key"}
    /\ loops' = [loops EXCEPT !.ui = "finally"]
    /\ last' = NoOp
    /\ UNCHANGED <<sdIdle, sdHeap, current_mode, ssVars, vcVars>>

\* line 621: shared_state.is_running = False
SdFinally ==
    /\ loops.ui = "finally"
    /\ is_running' = FALSE
    /\ loops' = [loops EXCEPT !.ui = "join"]
    /\ last' = NoOp
    /\ UNCHANGED <<sdIdle, sdHeap, current_mode, tracked_objects, tracking_status,
                   latest_frame, command_queue, vcVars>>

\* line 622: vision_thread.join(timeout=5) returns when the thread has
\* ended or the timeout has passed
SdJoin ==
    /\ loops.ui = "join"
    /\ loops' = [loops EXCEPT !.ui = "stop_stream"]
    /\ last' = NoOp
    /\ UNCHANGED <<sdIdle, sdHeap, current_mode, ssVars, vcVars>>

\* lines 623-625: audio_controller.stop_stream() sets running = False; main
\* then releases the camera and the windows
SdStopStream ==
    /\ loops.ui = "stop_stream"
    /\ loops' = [loops EXCEPT !.ui = "done", !.running = FALSE]
    /\ last' = NoOp
    /\ UNCHANGED <<sdIdle, sdHeap, current_mode, ssVars, vcVars>>

\* _update_loop line 222: while self.running
SdAudioTop(k) ==
    /\ k \in DOMAIN loops.audio
    /\ loops.audio[k] = "top"
    /\ loops' = [loops EXCEPT !.audio[k] = IF loops.running THEN "body" ELSE "stopped"]
    /\ last' = NoOp
    /\ UNCHANGED <<sdIdle, sdHeap, current_mode, ssVars, vcVars>>

\* _update_loop lines 223-229: get_display_state, _update_scene, sleep
SdAudioBody(k) ==
    /\ k \in DOMAIN loops.audio
    /\ loops.audio[k] = "body"
    /\ loops' = [loops EXCEPT !.audio[k] = "top",
                              !.did = Did("audio_loop", {"snapshot", "status"})]
    /\ last' = NoOp
    /\ UNCHANGED <<sdIdle, sdHeap, current_mode, ssVars, vcVars>>

\* resume_stream without the restart of a stopped loop
resume_stream_NoRestart(l) == l

\* resume_stream (audio_hrtf.py lines 215-218): a stopped audio loop is
\* started again, on a new update thread
resume_stream(l) ==
    IF ~l.running
    THEN [l EXCEPT !.running = TRUE, !.audio = Append(@, "top")]
    ELSE l

\* process_voice_thread lines 492-496: stop_recording() returns the
\* transcription, then audio_controller.resume_stream()
SdVoiceResume ==
    /\ loops.voicew = "transcribe"
    /\ loops' = [resume_stream(loops) EXCEPT !.voicew = "intent"]
    /\ last' = NoOp
    /\ UNCHANGED <<sdIdle, sdHeap, current_mode, ssVars, vcVars>>

Intents == {"none", "track_object", "stop_tracking", "quit", "direct_response"}

\* what the handler of an intent touches (lines 505-574)
Touches(intent) ==
    CASE intent = "track_object" -> {"object manager", "command queue"}
      [] intent = "stop_tracking" -> {"object manager", "snapshot", "status"}
      [] intent = "quit" -> {"is_running"}
      [] OTHER -> {}

\* the handlers with the shutdown flag tested first
HandleIntent_Guarded(intent) ==
    /\ is_running' = (is_running /\ intent # "quit")
    /\ UNCHANGED <<sdHeap, current_mode, tracking_status, command_queue>>
    /\ loops' = [loops EXCEPT !.voicew = "done",
                              !.did = Did("voice_worker", {})]
    /\ last' = NoOp

\* process_voice_thread lines 498-574: the handler of the parsed intent
HandleIntent(intent) ==
    /\ IF intent = "stop_tracking"
       THEN LET a == Alloc([lists EXCEPT ![om_objects] = clear(OM).list], <<>>)
            IN  SetHeap(objs, a.lists, om_objects, a.ref, ui_objects)
       ELSE UNCHANGED sdHeap
    /\ current_mode' = IF intent = "track_object"
                       THEN set_mode(current_mode, "navigation").mode
                       ELSE current_mode
    /\ command_queue' = IF intent = "track_object"
                        THEN add_command(command_queue, "detect")
                        ELSE command_queue
    /\ tracking_status' = IF intent = "stop_tracking" THEN "READY" ELSE tracking_status
    /\ is_running' = (is_running /\ intent # "quit")
    /\ loops' = [loops EXCEPT !.voicew = "done",
                              !.did = Did("voice_worker", Touches(intent))]
    /\ last' = NoOp

SdVoiceIntent(intent) ==
    /\ loops.voicew = "intent"
    /\ intent = "track_object" => Len(command_queue) < MaxQueue
    /\ HandleIntent(intent)
    /\ UNCHANGED <<sdIdle, latest_frame, vcVars>>

NextShutdown ==
    \/ SdVisionTop
    \/ SdVisionBody
    \/ SdWorkerDone
    \/ \E ret \in BOOLEAN : SdUITop(ret)
    \/ \E key \in SdKeys : SdUIKey(key)
    \/ SdInterrupt
    \/ SdFinally
    \/ SdJoin
    \/ SdStopStream
    \/ \E k \in 1..2 : SdAudioTop(k)
    \/ \E k \in 1..2 : SdAudioBody(k)
    \/ SdVoiceResume
    \/ \E intent \in Intents : SdVoiceIntent(intent)

\* every thread keeps running: the scheduler starves none of them
SdFairness ==
    /\ WF_vars(SdVisionTop) /\ WF_vars(SdVisionBody) /\ WF_vars(SdWorkerDone)
    /\ WF_vars(\E ret \in BOOLEAN : SdUITop(ret))
    /\ WF_vars(\E key \in SdKeys : SdUIKey(key))
    /\ WF_vars(SdFinally) /\ WF_vars(SdJoin) /\ WF_vars(SdStopStream)
    /\ \A k \in 1..2 : WF_vars(SdAudioTop(k)) /\ WF_vars(SdAudioBody(k))
    /\ WF_vars(SdVoiceResume)
    /\ WF_vars(\E intent \in Intents : SdVoiceIntent(intent))

SpecShutdown == Init /\ [][NextShutdown]_vars

SpecShutdownFair == SpecShutdown /\ SdFairness

AudioStopped == \A k \in DOMAIN loops.audio : loops.audio[k] = "stopped"

\* the vision loop and the UI loop do stop once the flag is down
VisionAndUIStop ==
    (~is_running) ~> (loops.vision = "stopped" /\ loops.ui = "done")

\* C28: cooperative shutdown: once is_running is false (quit key, voice
\* 'quit' intent, camera read failure or interrupt) the vision loop ends
\* after its current iteration, the UI loop exits and the audio update loop
\* ends after stop_stream: eventually all three loops have stopped.
C28_Original ==
    (~is_running) ~> (loops.vision = "stopped" /\ loops.ui = "done" /\ AudioStopped)

----------------------------------------------------------------------------
(* Speech (voice_control.py lines 238-346).  tts.requests counts the       *)
(* speak() calls; a response is the thread running _speak_sync for one     *)
(* call, with the number of spoken segments it still has to play (the      *)
(* text split at its #PAUSE tokens); a player is one mpv process.          *)
(* tts.current is self.current_mpv_process: an index into tts.procs, or    *)
(* NoProc for None.  A player records whether a later response had been    *)
(* requested when it was started.                                          *)

MaxRequests == 2
NoProc == 0 - 1

\* the spoken segments of a text: one, or two around a #PAUSE token
Segments == {1, 2}

Playing(t) == {p \in DOMAIN t.procs : t.procs[p].alive}

\* stop_speaking (lines 238-251): the process current refers to is
\* terminated if it is still running, and current is cleared
stop_speaking(t) ==
    IF t.current # NoProc /\ t.procs[t.current].alive
    THEN [t EXCEPT !.procs[t.current].alive = FALSE, !.current = NoProc]
    ELSE t

\* speak (lines 253-277): stop_speaking(), then _speak_sync on a thread
speak(t, segs) ==
    LET s == stop_speaking(t)
    IN  [s EXCEPT !.requests = @ + 1,
                  !.threads = Append(@, [req |-> s.requests + 1, segs |-> segs,
                                         pc |-> "generate", waits |-> NoProc])]

ttsIdle == <<now, omVars, ssVars, vcVars, thrVars, last, hist, audio, mixer,
             callers, loops, hrtf, locks>>

CallSpeak(segs) ==
    /\ tts.requests < MaxRequests
    /\ tts' = speak(tts, segs)
    /\ UNCHANGED ttsIdle

\* lines 308-335: the segment is synthesised to a file and a player is
\* started on it; current now refers to that player
StartPlayer(k) ==
    /\ k \in DOMAIN tts.threads
    /\ tts.threads[k].pc = "generate"
    /\ tts' = [tts EXCEPT
           !.procs = Append(@, [owner |-> tts.threads[k].req, alive |-> TRUE,
                                late |-> tts.threads[k].req < tts.requests]),
           !.current = Len(tts.procs) + 1,
           !.threads[k].pc = "wait"]
    /\ UNCHANGED ttsIdle

\* lines 337-338: if self.current_mpv_process: self.current_mpv_process
\* .wait() is entered on whatever current refers to at that moment
EnterWait(k) ==
    /\ k \in DOMAIN tts.threads
    /\ tts.threads[k].pc = "wait"
    /\ tts' = [tts EXCEPT !.threads[k].pc = IF tts.current = NoProc THEN "next"
                                             ELSE "waiting",
                          !.threads[k].waits = tts.current]
    /\ UNCHANGED ttsIdle

\* the player runs to the end of its file
PlayerEnds(p) ==
    /\ p \in Playing(tts)
    /\ tts' = [tts EXCEPT !.procs[p].alive = FALSE]
    /\ UNCHANGED ttsIdle

\* lines 338-339: wait() returns when the process has ended or was
\* terminated; current is set to None
LeaveWait(k) ==
    /\ k \in DOMAIN tts.threads
    /\ tts.threads[k].pc = "waiting"
    /\ ~tts.procs[tts.threads[k].waits].alive
    /\ tts' = [tts EXCEPT !.current = NoProc, !.threads[k].pc = "next",
                          !.threads[k].waits = NoProc]
    /\ UNCHANGED ttsIdle

\* lines 295-306 and 342-343: the file is removed; a pause, then the next
\* segment, or the end of the text
NextSegment(k) ==
    /\ k \in DOMAIN tts.threads
    /\ tts.threads[k].pc = "next"
    /\ tts' = [tts EXCEPT !.threads[k].segs = @ - 1,
                          !.threads[k].pc = IF tts.threads[k].segs > 1
                                            THEN "generate" ELSE "done"]
    /\ UNCHANGED ttsIdle

NextSpeech ==
    \/ \E segs \in Segments : CallSpeak(segs)
    \/ \E k \in 1..MaxRequests :
           \/ StartPlayer(k)
           \/ EnterWait(k)
           \/ LeaveWait(k)
           \/ NextSegment(k)
    \/ \E p \in 1..(2 * MaxRequests) : PlayerEnds(p)

SpecSpeech == Init /\ [][NextSpeech]_vars

\* C30: a new spoken response stops the playback in progress first: under
\* any interleaving of speak() calls at most one player process is playing
\* at a time, and a superseded response never starts or resumes playback
\* (its remaining #PAUSE-separated segments included) after the later one
\* was requested.
C30_Original ==
    /\ Cardinality(Playing(tts)) <= 1
    /\ \A p \in DOMAIN tts.procs : ~tts.procs[p].late

----------------------------------------------------------------------------
(* HRTF_AudioController without a working OpenAL (audio_hrtf.py lines      *)
(* 15-72, 138-152, 191-238).  hrtf.available is the module global          *)
(* OPENAL_AVAILABLE; hrtf.running is self.running; hrtf.shared_state tells *)
(* whether the attribute self.shared_state has been assigned.  A call      *)
(* yields the controller after it and whether it raised.                   *)

\* __init__: the import found no PyOpenAL, oalInit() raised, or all went well
InitOutcomes == {"ok", "import_error", "init_error"}

hrtf_init(h, outcome) ==
    [available |-> (outcome = "ok"), built |-> TRUE, running |-> FALSE,
     shared_state |-> FALSE]

\* start_stream (lines 138-152): returns at line 141 before any assignment
\* when the loop runs already or OpenAL is unavailable
hrtf_start_stream(h) ==
    IF h.running \/ ~h.available
    THEN [h |-> h, raised |-> FALSE]
    ELSE [h |-> [h EXCEPT !.running = TRUE, !.shared_state = TRUE],
          raised |-> FALSE]

\* stop_stream (lines 191-213)
hrtf_stop_stream(h) == [h |-> [h EXCEPT !.running = FALSE], raised |-> FALSE]

\* resume_stream (lines 215-218): self.start_stream(self.shared_state)
\* reads an attribute that only start_stream assigns (line 144)
hrtf_resume_stream(h) ==
    IF h.running THEN [h |-> h, raised |-> FALSE]
    ELSE IF ~h.shared_state THEN [h |-> h, raised |-> TRUE]
    ELSE hrtf_start_stream(h)

\* _update_scene (lines 235-238): nothing is done without OpenAL
hrtf_update_scene(h, a, O, objects) ==
    IF ~h.available THEN a ELSE update_scene(a, O, objects)

auIdle == <<now, omVars, ssVars, vcVars, thrVars, hist, mixer, tts, callers, loops,
           locks>>

Outcome31(raised) == IF raised THEN "raised" ELSE "returned"

\* main lines 212-214: the controller is constructed
AuInit(outcome) ==
    /\ ~hrtf.built
    /\ hrtf' = hrtf_init(hrtf, outcome)
    /\ last' = [op |-> "__init__", arg |-> outcome, ret |-> "returned", pre |-> <<>>]
    /\ UNCHANGED <<auIdle, audio>>

\* main line 252: audio_controller.start_stream(shared_state)
AuStartStream ==
    /\ hrtf.built
    /\ LET r == hrtf_start_stream(hrtf)
       IN  /\ hrtf' = r.h
           /\ last' = [op |-> "start_stream", arg |-> <<>>, ret |-> Outcome31(r.raised),
                       pre |-> <<>>]
    /\ UNCHANGED <<auIdle, audio>>

\* process_voice_thread line 496: audio_controller.resume_stream()
AuResumeStream ==
    /\ hrtf.built
    /\ LET r == hrtf_resume_stream(hrtf)
       IN  /\ hrtf' = r.h
           /\ last' = [op |-> "resume_stream", arg |-> <<>>, ret |-> Outcome31(r.raised),
                       pre |-> <<>>]
    /\ UNCHANGED <<auIdle, audio>>

\* _update_scene on the published snapshot
AuUpdateScene ==
    /\ hrtf.built
    /\ audio' = hrtf_update_scene(hrtf, audio, objs, lists[tracked_objects])
    /\ last' = [op |-> "_update_scene", arg |-> lists[tracked_objects],
                ret |-> "returned", pre |-> <<>>]
    /\ UNCHANGED <<auIdle, hrtf>>

\* main line 623: stop_stream() stops and deletes every source
AuStopStream ==
    /\ hrtf.built
    /\ LET r == hrtf_stop_stream(hrtf)
       IN  /\ hrtf' = r.h
           /\ last' = [op |-> "stop_stream", arg |-> <<>>, ret |-> Outcome31(r.raised),
                       pre |-> <<>>]
    /\ audio' = NoAudio
    /\ UNCHANGED auIdle

NextSilent ==
    \/ \E outcome \in InitOutcomes : AuInit(outcome)
    \/ AuStartStream
    \/ AuResumeStream
    \/ AuUpdateScene
    \/ AuStopStream
    \/ \E batch \in BatchesThreat : CallVisionResult(batch, MaxId)
    \/ CallUpdateTracking

SpecSilent == Init /\ [][NextSilent]_vars

\* C31: with OpenAL unavailable or its initialisation failed the audio
\* subsystem is a silent no-op: start_stream, resume_stream, _update_scene
\* and stop_stream return without raising and create no source, so their
\* callers go on.
C31_Original ==
    (~hrtf.available /\ last.op \in {"start_stream", "resume_stream",
                                     "_update_scene", "stop_stream"})
        => (last.ret = "returned" /\ audio = NoAudio /\ ~hrtf.running)

----------------------------------------------------------------------------
(* The detection round trip (vision_module.py lines 218-232 and 284-396,   *)
(* main_enhanced.py lines 283-390) with the vision loop's iteration cut at *)
(* the points where the detection worker can run in between: the result   *)
(* check (v_pc = "detect"), the command handling (v_pc = "command") and    *)
(* the rest of the iteration (v_pc = "track").                             *)

\* what the service call comes to: a JSON list of records, valid JSON that
\* is not a list, text that is no JSON, an API error, or cv2.imwrite
\* raising before the try block
Responses ==
    [kind : {"list"}, items : BatchesThreat]
        \cup [kind : {"dict"}, items : {<<[box_2d |-> BoxA, label |-> Cup]>>}]
        \cup [kind : {"not_json", "api_error", "imwrite_error"}, items : {<<>>}]

\* _detect_multi_objects_with_gemini without the isinstance test
detect_multi_objects_with_gemini_Unchecked(response) ==
    IF response.kind = "imwrite_error" THEN [val |-> <<>>, raised |-> TRUE]
    ELSE IF response.kind \in {"list", "dict"}
    THEN [val |-> response.items, raised |-> FALSE]
    ELSE [val |-> <<>>, raised |-> FALSE]

\* _detect_multi_objects_with_gemini (lines 284-350): [val, raised]
detect_multi_objects_with_gemini(response) ==
    IF response.kind = "imwrite_error" THEN [val |-> <<>>, raised |-> TRUE]
    ELSE IF response.kind = "list"
    THEN [val |-> response.items, raised |-> FALSE]
    ELSE [val |-> <<>>, raised |-> FALSE]

\* _async_reacquire_multi_worker (lines 352-371): the result, or [] after
\* an exception, is stored under search_lock
async_reacquire_multi_worker(vc, response) ==
    LET d == detect_multi_objects_with_gemini(response)
    IN  [is_searching |-> FALSE,
         search_result |-> Some(IF d.raised THEN <<>> ELSE d.val),
         workers |-> vc.workers - 1]

dtIdle == <<now, current_mode, tracking_status, latest_frame, is_running, ui_pc,
            voice, hist, audio, extVars>>

\* the F key (main_enhanced.py line 458)
DtQueue ==
    /\ Len(command_queue) < MaxQueue
    /\ command_queue' = add_command(command_queue, "detect")
    /\ last' = NoOp
    /\ UNCHANGED <<dtIdle, omVars, tracked_objects, vcVars, v_pc, ui_objects>>

\* vision_worker lines 290-318: a finished detection is picked up and merged
DtCheck ==
    /\ v_pc = "detect"
    /\ LET chk == check_reacquisition_result(VC)
           pd == IF chk.ret.some THEN process_detections(OM, chk.ret.val, now)
                 ELSE [om |-> OM, count |-> 0]
           om1 == IF pd.count > 0 THEN init_all_trackers(pd.om) ELSE pd.om
       IN  /\ om1.next_id <= MaxId
           /\ StoreInPlace(om1)
           /\ search_result' = chk.vc.search_result
           /\ last' = [op |-> "consume", arg |-> chk.ret, ret |-> pd.count,
                       pre |-> <<>>]
    /\ v_pc' = "command"
    /\ UNCHANGED <<dtIdle, current_mode, command_queue, is_searching, workers>>

\* vision_worker lines 320-339: a "detect" command starts the next request
\* unless one is searching
DtCommand ==
    /\ v_pc = "command"
    /\ LET r == IF command_queue = <<>> THEN [queue |-> <<>>, ret |-> "None"]
                ELSE [queue |-> Tail(command_queue), ret |-> Head(command_queue)]
           vc1 == IF r.ret = "detect" /\ ~is_searching
                  THEN start_reacquisition_multi(VC).vc
                  ELSE VC
       IN  /\ command_queue' = r.queue
           /\ is_searching' = vc1.is_searching
           /\ search_result' = vc1.search_result
           /\ workers' = vc1.workers
           /\ last' = [op |-> "command", arg |-> r.ret, ret |-> vc1.workers - workers,
                       pre |-> <<>>]
    /\ v_pc' = "track"
    /\ UNCHANGED <<dtIdle, omVars, tracked_objects, ui_objects>>

\* vision_worker lines 341-388: trackers, snapshot, local recovery, cleanup
\* and lost-threat check
DtRest(results, matches) ==
    /\ v_pc = "track"
    /\ LET tracked == IF lists[om_objects] # <<>>
                      THEN update_trackers(OM, results, now) ELSE OM
           a == Alloc(lists, tracked.list)
           om2 == local_recovery(tracked, matches, now)
           c == cleanup_stale_trackers(om2, MaxAge, now)
           q1 == IF c.ret THEN add_command(command_queue, "detect")
                 ELSE command_queue
           th == check_lost_threats(c.om, now)
           q2 == IF th.ret THEN add_command(q1, "detect") ELSE q1
           b == IF c.ret \/ th.ret THEN Alloc(a.lists, th.om.list)
                ELSE [lists |-> [a.lists EXCEPT ![om_objects] = th.om.list],
                      ref |-> om_objects]
       IN  /\ Len(q2) <= MaxQueue
           /\ SetHeap(th.om.objs, b.lists, b.ref, a.ref, ui_objects)
           /\ command_queue' = q2
           /\ tracking_status' = IF tracked.list # <<>> THEN "TRACKING" ELSE "READY"
    /\ v_pc' = "detect"
    /\ last' = [op |-> "rest", arg |-> [results |-> results, matches |-> matches],
                ret |-> 0, pre |-> <<>>]
    /\ UNCHANGED <<now, next_id, current_mode, latest_frame, is_running, vcVars,
                   ui_pc, voice, hist, audio, extVars>>

\* the detection worker returns from the service call
DtWorker(response) ==
    /\ workers > 0
    /\ LET vc1 == async_reacquire_multi_worker(VC, response)
       IN  /\ is_searching' = vc1.is_searching
           /\ search_result' = vc1.search_result
           /\ workers' = vc1.workers
           /\ last' = [op |-> "worker", arg |-> response, ret |-> vc1.search_result,
                       pre |-> <<>>]
    /\ UNCHANGED <<dtIdle, omVars, tracked_objects, command_queue, v_pc, ui_objects>>

NextDetect ==
    \/ DtQueue
    \/ DtCheck
    \/ DtCommand
    \/ \E results \in [DOMAIN objs -> TrackSys], matches \in [DOMAIN objs -> MatchesSys] :
           DtRest(results, matches)
    \/ \E response \in Responses : DtWorker(response)

SpecDetect == Init /\ [][NextDetect]_vars

\* C32: a detection that fails or answers with something that is no list
\* reaches the tracking loop as an empty batch, never as an exception, and
\* consuming that batch changes nothing: the object set, every object's
\* fields and the command queue are as before.
C32_EmptyBatch ==
    [][/\ (last'.op = "worker" /\ last'.arg.kind # "list")
              => search_result' = Some(<<>>)
       /\ (last'.op = "consume" /\ last'.arg = Some(<<>>))
              => /\ objs' = objs
                 /\ lists'[om_objects'] = lists[om_objects]
                 /\ next_id' = next_id
                 /\ command_queue' = command_queue]_vars

\* the batch of a failed detection was consumed while a lost object was
\* in the list
C32_Witness ==
    /\ last.op = "consume" /\ last.arg = Some(<<>>)
    /\ \E i \in Range(lists[om_objects]) : objs[i].is_lost

\* C36: a started detection request completes and its result batch is
\* handed to the tracking loop by check_reacquisition_result exactly once:
\* a stored result leaves search_result only by being delivered, also when
\* the worker finishes between the loop's result check and the "detect"
\* command that starts the next request.
C36_Original ==
    [][(search_result.some /\ ~search_result'.some) => last'.op = "consume"]_vars

----------------------------------------------------------------------------
(* process_detections on records as the service sends them                 *)
(* (mode_controller.py lines 135-217).  A record tells whether it is a     *)
(* dict, whether its coordinates are numbers and whether its label is a    *)
(* string; a missing box_2d is the default [].  det.get on a non-dict,     *)
(* arithmetic on a non-number and re.search on a non-string raise before   *)
(* any object is touched, and the except clause of the loop body goes on   *)
(* with the next record.                                                   *)

Record(is_dict, box_2d, numeric, label, is_str) ==
    [is_dict |-> is_dict, box_2d |-> box_2d, numeric |-> numeric,
     label |-> label, is_str |-> is_str]

GoodRecords ==
    {Record(TRUE, BoxA, TRUE, Cup, TRUE),
     Record(TRUE, BoxC, TRUE, Cup, TRUE),
     Record(TRUE, BoxC, TRUE, Person, TRUE)}

\* not a dict; no box_2d; three coordinates; a coordinate that is a string;
\* a label that is a number
BadRecords ==
    {Record(FALSE, <<>>, TRUE, Cup, TRUE),
     Record(TRUE, <<>>, TRUE, Cup, TRUE),
     Record(TRUE, BoxBad, TRUE, Person, TRUE),
     Record(TRUE, BoxA, FALSE, Cup, TRUE),
     Record(TRUE, BoxC, TRUE, Person, FALSE)}

\* the loop body raises, or leaves by `continue` at line 142
Raises(rec) ==
    \/ ~rec.is_dict
    \/ Len(rec.box_2d) = 4 /\ ~rec.numeric
    \/ Len(rec.box_2d) = 4 /\ rec.numeric /\ PixelBox(rec.box_2d) # NoBox /\ ~rec.is_str

\* lines 136-216: one record inside try / except Exception: continue
ProcessRecord(om, rec, t) ==
    IF Raises(rec) THEN [om |-> om, count |-> 0]
    ELSE ProcessDetection(om, [box_2d |-> rec.box_2d, label |-> rec.label], t)

\* the loop with the try block around it instead of inside it
RECURSIVE process_records_Abort(_, _, _)
process_records_Abort(om, records, t) ==
    IF records = <<>> \/ Raises(Head(records)) THEN [om |-> om, count |-> 0]
    ELSE LET first == ProcessRecord(om, Head(records), t)
             rest == process_records_Abort(first.om, Tail(records), t)
         IN  [om |-> rest.om, count |-> first.count + rest.count]

\* lines 124-217 on raw records
RECURSIVE process_records(_, _, _)
process_records(om, records, t) ==
    IF records = <<>> THEN [om |-> om, count |-> 0]
    ELSE LET first == ProcessRecord(om, Head(records), t)
             rest == process_records(first.om, Tail(records), t)
         IN  [om |-> rest.om, count |-> first.count + rest.count]

\* batches of up to three records, at most one of them malformed
RecordBatches ==
    {<<g, b, h>> : g \in GoodRecords, b \in BadRecords, h \in GoodRecords}
        \cup {<<b, g>> : b \in BadRecords, g \in GoodRecords}
        \cup {<<g, b>> : g \in GoodRecords, b \in BadRecords}
        \cup {<<b>> : b \in BadRecords}
        \cup {<<g, h>> : g \in GoodRecords, h \in GoodRecords}

CallProcessRecords(batch) ==
    LET r == process_records(OM, batch, now)
    IN  /\ r.om.next_id <= MaxId
        /\ StoreInPlace(r.om)
        /\ last' = [op |-> "process_records", arg |-> batch, ret |-> r.count,
                    pre |-> Pre]
        /\ UNCHANGED <<now, current_mode, restVars>>

NextRecords ==
    \/ \E batch \in RecordBatches : CallProcessRecords(batch)
    \/ \E results \in [DOMAIN objs -> TrackFail] : CallUpdateTrackers(results, FALSE)

SpecRecords == Init /\ [][NextRecords]_vars

\* the well-formed records of a batch, as process_detections takes them
Sound(batch) ==
    LET good == SelectSeq(batch, LAMBDA rec : rec \in GoodRecords)
    IN  [k \in DOMAIN good |-> [box_2d |-> good[k].box_2d, label |-> good[k].label]]

\* C33: per-record isolation: a malformed record (missing or wrong-length
\* box_2d, non-numeric coordinates, non-string label, non-dict record) is
\* skipped without a state change, and the other records of its batch,
\* before and after it, are processed as in the batch without it.
C33_Isolation ==
    last.op = "process_records" =>
        LET pre == [objs |-> last.pre.objs, list |-> last.pre.list,
                    next_id |-> last.pre.next_id]
            want == process_detections(pre, Sound(last.arg), last.pre.t)
        IN  /\ lists[om_objects] = want.om.list
            /\ \A i \in Range(want.om.list) : objs[i] = want.om.objs[i]
            /\ next_id = want.om.next_id
            /\ last.ret = want.count

\* a malformed record between two records that took effect
C33_Witness ==
    /\ last.op = "process_records"
    /\ Len(last.arg) = 3
    /\ last.arg[2] \in BadRecords
    /\ last.arg[1] \in GoodRecords /\ last.arg[3] \in GoodRecords
    /\ last.ret = 2

----------------------------------------------------------------------------
(* Local recovery inside the vision tick (main_enhanced.py lines 341-373,  *)
(* vision_module.py lines 506-545): the tracking loop with the clock       *)
(* running, trackers that follow, fail or raise, and template matching     *)
(* that finds the patch or does not.                                       *)

\* the service finds a cup and a person, or fails
ResponsesRecover ==
    {[kind |-> "list", items |-> <<[box_2d |-> BoxA, label |-> Cup],
                                   [box_2d |-> BoxC, label |-> Person]>>],
     [kind |-> "api_error", items |-> <<>>]}

NextRecover ==
    \/ Tick(1, MaxTimeTrack)
    \/ DtQueue
    \/ DtCheck
    \/ DtCommand
    \/ \E results \in [DOMAIN objs -> TrackTrack],
          matches \in [DOMAIN objs -> MatchesTrack] : DtRest(results, matches)
    \/ \E response \in ResponsesRecover : DtWorker(response)

SpecRecover == Init /\ [][NextRecover]_vars

\* the objects as update_trackers leaves them in the tick that is ending
AfterTrackers ==
    IF lists[om_objects] # <<>>
    THEN update_trackers(OM, last'.arg.results, now) ELSE OM

\* template matching succeeds for the object: it has a template that fits
\* the frame and a location scored above 0.7
Recovers(obj, match) ==
    /\ obj.template # NoBox
    /\ obj.template[1] <= FrameW
    /\ obj.template[2] <= FrameH
    /\ match # NoBox

----------------------------------------------------------------------------
(* The clamping of detection boxes (mode_controller.py lines 141-160).     *)
(* The service's boxes are [y_min, x_min, y_max, x_max] in 0..1000 space,  *)
(* but nothing makes it keep to that: the extents below are, per axis, a   *)
(* regular one, an inverted one, an empty one, one under 5 px, one past    *)
(* the far edge, one past both edges and one wholly outside the frame.     *)

Extents ==
    {<<0, 500>>, <<500, 0>>, <<500, 500>>, <<0, 5>>, <<500, 1200>>,
     <<0 - 100, 1200>>, <<1200, 1500>>}

ClampBoxes == {<<ey[1], ex[1], ey[2], ex[2]>> : ey \in Extents, ex \in Extents}

NextClamp ==
    \/ \E box \in ClampBoxes :
           CallProcessDetections(<<[box_2d |-> box, label |-> Cup]>>, 1, FALSE)
    \/ \E results \in [DOMAIN objs -> TrackFail] : CallUpdateTrackers(results, FALSE)

SpecClamp == Init /\ [][NextClamp]_vars

\* C35: every bbox process_detections gives an object lies inside the frame
\* and has sides of at least 5 px: 0 <= x <= W-1, 0 <= y <= H-1, x+w <= W,
\* y+h <= H, w >= 5, h >= 5, whatever box the detection carried
C35_InFrame ==
    \A i \in DOMAIN objs :
        LET b == objs[i].bbox
        IN  /\ 0 <= b[1] /\ b[1] <= FrameW - 1
            /\ 0 <= b[2] /\ b[2] <= FrameH - 1
            /\ b[1] + b[3] <= FrameW
            /\ b[2] + b[4] <= FrameH
            /\ b[3] >= MinBoxSide
            /\ b[4] >= MinBoxSide

\* a detection box reaching past the frame on both axes has been clamped
\* into an object's bbox
C35_Witness ==
    /\ last.op = "process_detections"
    /\ last.arg[1].box_2d[3] > NormRange
    /\ last.arg[1].box_2d[4] > NormRange
    /\ \E i \in DOMAIN objs :
           /\ objs[i].bbox = PixelBox(last.arg[1].box_2d)
           /\ objs[i].bbox[1] + objs[i].bbox[3] = FrameW
           /\ objs[i].bbox[2] + objs[i].bbox[4] = FrameH

----------------------------------------------------------------------------
(* One detection record, one object (mode_controller.py lines 170-213).    *)
(* The batch of the last call is replayed record by record from the state  *)
(* the call found.                                                         *)

\* the object manager after the first k records of the last batch
AfterRecords(k) ==
    process_detections([objs |-> last.pre.objs, list |-> last.pre.list,
                        next_id |-> last.pre.next_id],
                       SubSeq(last.arg, 1, k), last.pre.t).om

\* the positions in om.list of the same-label objects overlapping the
\* record's pixel box by IoU > 0.1
Overlapping(om, det) ==
    {k \in 1..Len(om.list) :
        /\ om.objs[om.list[k]].label = ParseLabel(det.label).label
        /\ IoUGreater(compute_iou(om.objs[om.list[k]].bbox, PixelBox(det.box_2d)), 1)}

\* what one record may do between om and om2
OneRecordOneObject(om, det, om2, t) ==
    LET hits == Overlapping(om, det)
        first == om.list[CHOOSE k \in hits : \A j \in hits : k <= j]
    IN  IF PixelBox(det.box_2d) = NoBox THEN om2 = om
        ELSE IF hits # {}
        THEN /\ om2.list = om.list
             /\ om2.next_id = om.next_id
             /\ \A j \in DOMAIN om.objs : j # first => om2.objs[j] = om.objs[j]
             /\ om2.objs[first].last_verified = t
             /\ ~om2.objs[first].is_lost
        ELSE /\ om2.list = Append(om.list, om.next_id)
             /\ om2.next_id = om.next_id + 1
             /\ \A j \in DOMAIN om.objs : om2.objs[j] = om.objs[j]

\* C37: every record that reaches the matching step either modifies exactly
\* one existing object, the first same-label object in list order with
\* IoU > 0.1, or creates exactly one new object, never both and never more
\* than one; a bbox is replaced only on that matched object, whose
\* last_verified is refreshed in the same step (a skipped record does
\* neither)
C37_OneObjectPerRecord ==
    last.op = "process_detections" =>
        /\ \A k \in 1..Len(last.arg) :
               /\ OneRecordOneObject(AfterRecords(k - 1), last.arg[k],
                                     AfterRecords(k), last.pre.t)
               /\ \A j \in DOMAIN AfterRecords(k - 1).objs :
                      AfterRecords(k).objs[j].bbox # AfterRecords(k - 1).objs[j].bbox
                          => /\ AfterRecords(k).objs[j].last_verified = last.pre.t
                             /\ Overlapping(AfterRecords(k - 1), last.arg[k]) # {}
        /\ lists[om_objects] = AfterRecords(Len(last.arg)).list
        /\ next_id = AfterRecords(Len(last.arg)).next_id
        /\ \A i \in Range(lists[om_objects]) :
               objs[i] = AfterRecords(Len(last.arg)).objs[i]

\* a batch of two records: the first replaced the bbox of the object it
\* matched, the second created an object
C37_Witness ==
    /\ last.op = "process_detections"
    /\ Len(last.arg) = 2
    /\ last.ret = 1
    /\ Len(lists[om_objects]) = Len(last.pre.list) + 1
    /\ \E i \in Range(last.pre.list) :
           /\ objs[i].bbox # last.pre.objs[i].bbox
           /\ objs[i].bbox = PixelBox(last.arg[1].box_2d)

----------------------------------------------------------------------------
(* is_lost and lost_time over the operations of the tracking loop:         *)
(* add_object and process_detections (a finished detection), the tracker   *)
(* tick with every outcome, local recovery, the cleanup of stale objects    *)
(* and the lost-threat check.                                              *)

NextLost ==
    \/ Tick(2, MaxTimeThreat)
    \/ CallVisionResult(<<[box_2d |-> BoxA, label |-> Cup]>>, MaxId)
    \/ CallProcessDetections(<<[box_2d |-> BoxC, label |-> Person]>>, MaxId, FALSE)
    \/ \E results \in [DOMAIN objs -> TrackTrack] : CallUpdateTrackers(results, FALSE)
    \/ \E matches \in [DOMAIN objs -> MatchesTrack] : CallLocalRecovery(matches, FALSE)
    \/ CallCleanup(FALSE)
    \/ CallCheckLostThreats(FALSE)

SpecLost == Init /\ [][NextLost]_vars

\* C38: after every operation of the tracking loop, every object has
\* lost_time set exactly when is_lost is true
C38_LostTimeIffLost ==
    \A i \in DOMAIN objs : objs[i].is_lost <=> objs[i].lost_time # NoTime

\* the lost-threat check has run over a list holding an object lost at an
\* earlier time next to an object that is tracked
C38_Witness ==
    /\ last.op = "check_lost_threats"
    /\ \E i \in Range(lists[om_objects]) :
           objs[i].is_lost /\ objs[i].lost_time # NoTime /\ objs[i].lost_time < now
    /\ \E i \in Range(lists[om_objects]) :
           ~objs[i].is_lost /\ objs[i].lost_time = NoTime /\ objs[i].tracker # NoBox

----------------------------------------------------------------------------
(* The locks: SharedGameState._lock (shared_state.py lines 32-70 and the   *)
(* C key handler, main_enhanced.py lines 466-472), VisionController's      *)
(* search_lock (vision_module.py lines 218-232, 352-386) and the mixer's   *)
(* sources_lock (audio_module_multi.py lines 114-217).  A with block is a  *)
(* section: the lock it takes and the statements of its body, each a read, *)
(* a write, a copy of a frame or a print to stdout.  locks.pc[t].at is 0   *)
(* while t waits for the lock and k while it is at statement k.            *)

Section(s) ==
    CASE s = "update_frame" -> [lock |-> "state", body |-> <<"write", "write">>]
      [] s = "get_latest_frame" -> [lock |-> "state", body |-> <<"copy">>]
      [] s = "update_tracking" -> [lock |-> "state", body |-> <<"write", "write">>]
      [] s = "get_display_state" -> [lock |-> "state", body |-> <<"read">>]
      [] s = "add_command" -> [lock |-> "state", body |-> <<"write">>]
      [] s = "get_next_command" -> [lock |-> "state", body |-> <<"read", "write">>]
      [] s = "c_key_capture" -> [lock |-> "state", body |-> <<"read", "copy", "print">>]
      [] s = "check_reacquisition_result" ->
             [lock |-> "search", body |-> <<"read", "read", "write">>]
      [] s = "start_reacquisition_multi" ->
             [lock |-> "search", body |-> <<"read", "write", "write">>]
      [] s = "worker_store" -> [lock |-> "search", body |-> <<"write", "write">>]
      [] s = "audio_callback" -> [lock |-> "sources", body |-> <<"read", "write">>]
      [] s = "update_source" -> [lock |-> "sources", body |-> <<"write">>]

\* the with blocks each thread enters
Enters(t) ==
    CASE t = "ui" -> {"update_frame", "get_display_state", "add_command",
                      "c_key_capture", "update_tracking", "update_source"}
      [] t = "vision" -> {"get_latest_frame", "check_reacquisition_result",
                          "get_next_command", "start_reacquisition_multi",
                          "update_tracking", "add_command"}
      [] t = "worker" -> {"worker_store"}
      [] t = "audio" -> {"get_display_state", "audio_callback"}
      [] t = "voice" -> {"add_command", "update_tracking"}

\* a statement that can block on something outside the program
Blocking == {"print"}

lkIdle == <<now, omVars, ssVars, vcVars, thrVars, last, hist, audio, mixer, tts,
            callers, loops, hrtf>>

\* the thread reaches a with statement
LkWith(t, s) ==
    /\ locks.pc[t].section = "none"
    /\ s \in Enters(t)
    /\ locks' = [locks EXCEPT !.pc[t] = [section |-> s, at |-> 0]]
    /\ UNCHANGED lkIdle

\* the lock is free: the thread takes it and is at the first statement
LkAcquire(t) ==
    /\ locks.pc[t].section # "none"
    /\ locks.pc[t].at = 0
    /\ locks.holder[Section(locks.pc[t].section).lock] = "free"
    /\ locks' = [locks EXCEPT !.holder[Section(locks.pc[t].section).lock] = t,
                              !.pc[t].at = 1]
    /\ UNCHANGED lkIdle

\* the statement completes and the next one of the body is reached
LkStatement(t) ==
    /\ locks.pc[t].section # "none"
    /\ locks.pc[t].at >= 1
    /\ locks.pc[t].at < Len(Section(locks.pc[t].section).body)
    /\ locks' = [locks EXCEPT !.pc[t].at = @ + 1]
    /\ UNCHANGED lkIdle

\* the last statement completes: the with block is left, the lock released
LkLeave(t) ==
    /\ locks.pc[t].section # "none"
    /\ locks.pc[t].at = Len(Section(locks.pc[t].section).body)
    /\ locks' = [locks EXCEPT !.holder[Section(locks.pc[t].section).lock] = "free",
                              !.pc[t] = [section |-> "none", at |-> 0]]
    /\ UNCHANGED lkIdle

NextLocks ==
    \E t \in LThreads :
        \/ \E s \in Enters(t) : LkWith(t, s)
        \/ LkAcquire(t)
        \/ LkStatement(t)
        \/ LkLeave(t)

SpecLocks == Init /\ [][NextLocks]_vars

\* the locks thread t holds
Held(t) == {l \in LockNames : locks.holder[l] = t}

\* the statement thread t is at, "none" outside a body
Statement(t) ==
    IF locks.pc[t].at = 0 THEN "none"
    ELSE Section(locks.pc[t].section).body[locks.pc[t].at]

\* C39: no thread holds two locks at once, and no thread is at a blocking
\* call while it holds the shared-state lock, so no thread waits for the
\* shared state on another thread's I/O
C39_Original ==
    \A t \in LThreads :
        /\ Cardinality(Held(t)) <= 1
        /\ locks.holder["state"] = t => Statement(t) \notin Blocking

----------------------------------------------------------------------------
(* ObjectManager.get_proximity_zone (object_manager.py lines 340-363) over *)
(* config.PROXIMITY_ZONES (config.py lines 279-283).  The thresholds are   *)
(* kept in tenths and the ratio obj_area / frame_area as the pair of its   *)
(* numerator and denominator, so that every comparison is exact.           *)

\* the zones in the order the dict lists them
PROXIMITY_ZONES ==
    <<[name |-> "safe", min |-> 0, max |-> 3],
      [name |-> "caution", min |-> 3, max |-> 6],
      [name |-> "warning", min |-> 6, max |-> 10]>>

\* zone_config["min"] <= size_ratio < zone_config["max"]
InZone(zone, obj_area, frame_area) ==
    /\ zone.min * frame_area <= 10 * obj_area
    /\ 10 * obj_area < zone.max * frame_area

get_proximity_zone(bbox, frame_width, frame_height) ==
    IF bbox = NoBox THEN "safe"
    ELSE LET obj_area == bbox[3] * bbox[4]
             frame_area == frame_width * frame_height
             hits == {k \in DOMAIN PROXIMITY_ZONES :
                         InZone(PROXIMITY_ZONES[k], obj_area, frame_area)}
         IN  IF hits = {} THEN "safe"
             ELSE PROXIMITY_ZONES[CHOOSE k \in hits : \A j \in hits : k <= j].name

\* boxes from an empty one to one larger than the frame, in steps of a
\* tenth of the frame's width and height
ZoneBoxes ==
    {<<0, 0, 64 * i, 48 * j>> : i \in 0..11, j \in 1..11} \cup {NoBox}

CallProximityZone(bbox) ==
    /\ last' = [op |-> "get_proximity_zone", arg |-> bbox,
                ret |-> get_proximity_zone(bbox, FrameW, FrameH), pre |-> <<>>]
    /\ UNCHANGED <<now, omVars, ssVars, vcVars, thrVars, hist, audio, extVars>>

NextZone == \E bbox \in ZoneBoxes : CallProximityZone(bbox)

SpecZone == Init /\ [][NextZone]_vars

Severity(zone) == CASE zone = "safe" -> 0 [] zone = "caution" -> 1 [] zone = "warning" -> 2

\* C40: ratio < 0.3 gives 'safe', 0.3 <= ratio < 0.6 gives 'caution' and
\* every ratio >= 0.6, a box filling or exceeding the frame included, gives
\* 'warning'; a box with a smaller ratio never gets a more severe zone
C40_Original ==
    (last.op = "get_proximity_zone" /\ last.arg # NoBox) =>
        LET area == last.arg[3] * last.arg[4]
            frame == FrameW * FrameH
        IN  /\ 10 * area < 3 * frame => last.ret = "safe"
            /\ (3 * frame <= 10 * area /\ 10 * area < 6 * frame) => last.ret = "caution"
            /\ 6 * frame <= 10 * area => last.ret = "warning"
            /\ \A smaller \in ZoneBoxes \ {NoBox} :
                   smaller[3] * smaller[4] <= area =>
                       Severity(get_proximity_zone(smaller, FrameW, FrameH))
                           <= Severity(last.ret)

====
